---- MODULE Spec2Model ----
(***************************************************************************)
(* Gemini-clone: the tool-augmented generation loop of GenkitAgent         *)
(* (src/src/infrastructure/ai/GenkitAgent.ts, the refactored class at      *)
(* lines 198-399) together with the ToolRegistry helpers it calls          *)
(* (registerTools, executeToolManually) and the MessageConverter.          *)
(*                                                                         *)
(* One agent instance is constructed (Init), then one of its entry points  *)
(* is called: generateResponse (buffered, runAgentLoop) or generateStream  *)
(* (streaming).  The Completion Port (genkitClient.generate /              *)
(* generateStream) and the two tool adapters (WebSearch, KnowledgeBase)    *)
(* are the environment: what they answer is drawn from small sets.         *)
(***************************************************************************)
EXTENDS Naturals, Integers, Sequences, FiniteSets, TLC

VARIABLES
    toolDeps,         \* this.toolDeps: which adapters the constructor received
    tools,            \* this.tools: the catalog registerTools built
    mode,             \* entry point that is running: "none", "buffered", "stream"
    enabledTools,     \* the caller's per-request tool selection (options)
    pc,               \* position of the run inside the loop
    currentMessages,  \* the transcript of the run
    turn,             \* generateStream's turn counter
    response,         \* the Completion Port response being processed
    pending,          \* chunks of responseStream.stream not yet consumed
    req,              \* toolRequests[0] of the current turn
    yielded,          \* fragments generateStream has yielded, in order
    returned,         \* the string generateResponse resolved with
    calls,            \* every Completion Port call: transcript and tool catalog passed
    adapterCalls,     \* every adapter invocation: tool, query, outcome
    script,           \* what the Completion Port answered to call 1, 2, ...
    outcomes,         \* what the adapter did in turn 1, 2, ... ("unset" if not called)
    first,            \* the finished run of the other entry point (paired runs)
    pulling,          \* generateStream's consumer has a next() pending
    \* LocalVectorKnowledgeBase
    indexPc,          \* position of the background indexDocuments task
    rawChunks,        \* the paragraphs indexDocuments split the document into
    embeds,           \* per raw chunk: its ai.embed call, in flight or settled
    settled,          \* the raw chunks' indexes in the order their ai.embed calls settled
    chunks,           \* this.chunks
    isIndexed,        \* this.isIndexed
    search,           \* the search call in progress (or the last one)
    searches,         \* number of search calls made so far
    \* semanticChunk
    chunker,          \* the semanticChunk call in progress (or the last one)
    \* Conversation
    conv,             \* the Conversation: its id and this.messages
    arrays,           \* the ToolCall[] array objects messages refer to
    snapshots,        \* the arrays getHistory returned, as their callers hold them
    lastCall,         \* the last call made on the Conversation and how it ended
    \* Message, InMemoryConversationRepository, SendMessageUseCase, POST
    entity,           \* the last Message a factory made and a Conversation entity's _messages
    store,            \* InMemoryConversationRepository.store: id -> snapshot
    held,             \* the Conversation objects the repository's callers hold
    uc,               \* the SendMessageUseCase.execute call in progress (or the last one)
    posts,            \* the POST /api/chat requests in progress (or finished)
    converter         \* the toGenkitMessages call followed on its own: arguments and result

agentVars == <<toolDeps, tools, mode, enabledTools, pc, currentMessages, turn,
               response, pending, req, yielded, returned, calls, adapterCalls,
               script, outcomes, first, pulling>>

kbVars == <<indexPc, rawChunks, embeds, settled, chunks, isIndexed, search, searches>>

chunkVars == <<chunker>>

convVars == <<conv, arrays, snapshots, lastCall>>

appVars == <<entity, store, held, uc, posts, converter>>

vars == <<agentVars, kbVars, chunkVars, convVars, appVars>>

(***************************************************************************)
(* Bounds of the environment.                                              *)
(***************************************************************************)
\* The Completion Port answers freely to its first MaxFree calls; after that
\* it either repeats its previous answer (a port stuck on a tool request)
\* or drops the tool request from it.
MaxFree == 2
\* runAgentLoop has no turn counter: the buffered run is cut off after
\* MaxCalls Completion Port calls.
MaxCalls == 6

(***************************************************************************)
(* Program constants.                                                      *)
(***************************************************************************)
maxTurns == 5

WEB_SEARCH == "web_search"
KNOWLEDGE_BASE == "knowledge_base"
\* a tool name no adapter exists for
OTHER_TOOL == "calculator"

ToolNames == {WEB_SEARCH, KNOWLEDGE_BASE}

(***************************************************************************)
(* Values.                                                                 *)
(***************************************************************************)
\* toolResponse.output is { result: <list> } or { result: <string> }
ResultList(xs) == [kind |-> "list", items |-> xs, text |-> ""]
ResultText(s) == [kind |-> "text", items |-> <<>>, text |-> s]
NoOutput == [kind |-> "none", items |-> <<>>, text |-> ""]

NoRequest == [toolName |-> "", query |-> "", ref |-> 0]

\* message parts: { text }, { toolRequest: {name, input, ref} },
\* { toolResponse: {name, output, ref} }
TextMessage(role, text) ==
    [role |-> role, part |-> "text", text |-> text,
     name |-> "", query |-> "", ref |-> 0, output |-> NoOutput]

ToolRequestMessage(r) ==
    [role |-> "model", part |-> "toolRequest", text |-> "",
     name |-> r.toolName, query |-> r.query, ref |-> r.ref, output |-> NoOutput]

\* the tool message pushed without the request's correlation id
ToolResponseMessageUnkeyed(r, out) ==
    [role |-> "tool", part |-> "toolResponse", text |-> "",
     name |-> r.toolName, query |-> "", ref |-> 0, output |-> out]

ToolResponseMessage(r, out) ==
    [role |-> "tool", part |-> "toolResponse", text |-> "",
     name |-> r.toolName, query |-> "", ref |-> r.ref, output |-> out]

RECURSIVE Concat(_)
Concat(ss) == IF ss = <<>> THEN "" ELSE Head(ss) \o Concat(Tail(ss))

(***************************************************************************)
(* MessageConverter.toGenkitMessages                                       *)
(***************************************************************************)
\* the conversion with every role passed through as it is
toGenkitMessagesKeepsRole(history, systemPrompt) ==
    LET messages == [i \in 1..Len(history) |->
                        TextMessage(history[i].role, history[i].content)]
    IN  IF systemPrompt # ""
        THEN <<TextMessage("system", systemPrompt)>> \o messages
        ELSE messages

toGenkitMessages(history, systemPrompt) ==
    LET messages == [i \in 1..Len(history) |->
                        TextMessage(IF history[i].role = "model" THEN "model" ELSE "user",
                                    history[i].content)]
    IN  IF systemPrompt # ""
        THEN <<TextMessage("system", systemPrompt)>> \o messages
        ELSE messages

(***************************************************************************)
(* ToolRegistry.registerTools: one catalog entry per supplied adapter.     *)
(***************************************************************************)
registerTools(deps) ==
    (IF deps.webSearch THEN <<WEB_SEARCH>> ELSE <<>>)
        \o (IF deps.knowledgeBase THEN <<KNOWLEDGE_BASE>> ELSE <<>>)

\* tools: this.tools.length > 0 ? this.tools : undefined
ToolsArgument(ts) ==
    IF Len(ts) > 0 THEN [defined |-> TRUE, tools |-> ts]
    ELSE [defined |-> FALSE, tools |-> <<>>]

(***************************************************************************)
(* The environment: Completion Port responses and adapter outcomes.        *)
(***************************************************************************)
\* chunk.text of the chunks of one response; response.text is their
\* concatenation (the streaming variant resolves to the same shape)
ChunkChoices == {<<>>, <<"a", "", "b">>}

Request(name, q, k, i) == [toolName |-> name, query |-> q, ref |-> 10 * k + i]

\* response.output: reading it throws, or it is null, or it carries toolRequests
ThrowingOutput == [kind |-> "throws", toolRequests |-> <<>>]
NullOutput == [kind |-> "null", toolRequests |-> <<>>]
RequestsOutput(rs) == [kind |-> "list", toolRequests |-> rs]

RequestLists(k) ==
    { <<Request(WEB_SEARCH, "q1", k, 1)>>,
      <<Request(KNOWLEDGE_BASE, "q2", k, 1)>>,
      <<Request(OTHER_TOOL, "q1", k, 1)>>,
      <<Request(WEB_SEARCH, "q1", k, 1), Request(KNOWLEDGE_BASE, "q2", k, 2)>> }

Outputs(k) ==
    {ThrowingOutput, NullOutput, RequestsOutput(<<>>)}
        \cup {RequestsOutput(rs) : rs \in RequestLists(k)}

FreeResponses(k) == [chunks : ChunkChoices, output : Outputs(k)]

\* the previous answer again, under fresh correlation ids
Repeat(r, k) ==
    [r EXCEPT !.output.toolRequests =
        [i \in 1..Len(r.output.toolRequests) |->
            [r.output.toolRequests[i] EXCEPT !.ref = 10 * k + i]]]

LaterResponses(k) ==
    {Repeat(script[k - 1], k), [script[k - 1] EXCEPT !.output = NullOutput]}

\* the answer to the k-th call of a run: the recorded one when the other
\* entry point already made that call (the port is deterministic)
PortAnswers(k) ==
    IF k <= Len(script) THEN {script[k]}
    ELSE IF k <= MaxFree THEN FreeResponses(k)
    ELSE LaterResponses(k)

AdapterOutcomes == {"found", "empty", "throws"}

OutcomeChoices(k) ==
    IF outcomes[k] # "unset" THEN {outcomes[k]}
    ELSE IF k <= MaxFree \/ outcomes[k - 1] = "unset" THEN AdapterOutcomes
    ELSE {outcomes[k - 1]}

\* WebSearch.search(q).results / KnowledgeBase.search(q)
SearchResults(tool, q, outcome) ==
    IF outcome = "found" THEN <<tool \o ":" \o q>> ELSE <<>>

\* message of the Error a failing adapter throws
AdapterErrorMessage == "search failed"

\* one conversation: every domain role occurs (user, model, tool)
Histories == { <<[role |-> "user", content |-> "hi"],
                 [role |-> "model", content |-> "hello"],
                 [role |-> "tool", content |-> "more"]>> }

\* loadSystemPrompt(): '' when the prompt file cannot be read
SystemPrompts == {"", "You are helpful"}

\* options.enabledTools: absent, or a list of names (the empty selection
\* of the eval test)
EnabledChoices ==
    { [present |-> FALSE, names |-> {}],
      [present |-> TRUE, names |-> {}] }

\* executeToolManually dispatching on the supplied adapters only, whatever
\* tool the request names
executeToolManuallyAnyAdapter(toolName, query, deps, outcome) ==
    IF deps.webSearch
    THEN [invoked |-> WEB_SEARCH, threw |-> outcome = "throws",
          result |-> ResultList(SearchResults(WEB_SEARCH, query, outcome))]
    ELSE IF deps.knowledgeBase
    THEN [invoked |-> KNOWLEDGE_BASE, threw |-> outcome = "throws",
          result |-> ResultList(SearchResults(KNOWLEDGE_BASE, query, outcome))]
    ELSE [invoked |-> "", threw |-> FALSE,
          result |-> ResultText("No information found.")]

(***************************************************************************)
(* ToolRegistry.executeToolManually (buffered mode).  outcome is what the  *)
(* adapter does if it is called.  No try/catch: a throwing adapter         *)
(* rejects the returned promise.                                           *)
(***************************************************************************)
executeToolManually(toolName, query, deps, outcome) ==
    IF toolName = WEB_SEARCH /\ deps.webSearch
    THEN [invoked |-> WEB_SEARCH, threw |-> outcome = "throws",
          result |-> ResultList(SearchResults(WEB_SEARCH, query, outcome))]
    ELSE IF toolName = KNOWLEDGE_BASE /\ deps.knowledgeBase
    THEN [invoked |-> KNOWLEDGE_BASE, threw |-> outcome = "throws",
          result |-> ResultList(SearchResults(KNOWLEDGE_BASE, query, outcome))]
    ELSE [invoked |-> "", threw |-> FALSE,
          result |-> ResultText("No information found.")]

\* step 5 of generateStream without its try/catch
toolResultContentNoCatch(r, deps, outcome) ==
    IF r.toolName = WEB_SEARCH /\ deps.webSearch
    THEN [invoked |-> WEB_SEARCH, threw |-> outcome = "throws",
          result |-> ResultList(SearchResults(WEB_SEARCH, r.query, outcome))]
    ELSE IF r.toolName = KNOWLEDGE_BASE /\ deps.knowledgeBase
    THEN [invoked |-> KNOWLEDGE_BASE, threw |-> outcome = "throws",
          result |-> ResultList(SearchResults(KNOWLEDGE_BASE, r.query, outcome))]
    ELSE [invoked |-> "", threw |-> FALSE, result |-> ResultText("Tool unavailable")]

(***************************************************************************)
(* generateStream, step 5: the try/catch around the adapter call.          *)
(***************************************************************************)
toolResultContent(r, deps, outcome) ==
    IF r.toolName = WEB_SEARCH /\ deps.webSearch
    THEN [invoked |-> WEB_SEARCH, threw |-> FALSE,
          result |-> IF outcome = "throws"
                     THEN ResultText("Error: " \o AdapterErrorMessage)
                     ELSE ResultList(SearchResults(WEB_SEARCH, r.query, outcome))]
    ELSE IF r.toolName = KNOWLEDGE_BASE /\ deps.knowledgeBase
    THEN [invoked |-> KNOWLEDGE_BASE, threw |-> FALSE,
          result |-> IF outcome = "throws"
                     THEN ResultText("Error: " \o AdapterErrorMessage)
                     ELSE ResultList(SearchResults(KNOWLEDGE_BASE, r.query, outcome))]
    ELSE [invoked |-> "", threw |-> FALSE, result |-> ResultText("Tool unavailable")]

\* try { toolRequests = response.output?.toolRequests } catch { toolRequests = null }
\* (null and undefined both fail the later truthiness test)
ParseToolRequests(output) ==
    IF output.kind = "list" THEN [defined |-> TRUE, items |-> output.toolRequests]
    ELSE [defined |-> FALSE, items |-> <<>>]

\* !toolRequests || toolRequests.length === 0
NoToolRequests(tr) == ~tr.defined \/ Len(tr.items) = 0

\* a producer that runs ahead of its consumer
ResumedAlways == TRUE

\* async *generateStream: the body runs only between a next() of the
\* consumer and the yield (or return) that settles it
Resumed == pulling

\* the loop test off by one
LoopConditionOffByOne(t) == t <= maxTurns

\* while (turn < maxTurns)
LoopCondition(t) == t < maxTurns

(***************************************************************************)
(* State after construction: new GenkitAgent(webSearch?, knowledgeBase?)   *)
(***************************************************************************)
NotReturned == [set |-> FALSE, text |-> ""]
NoResponse == [chunks |-> <<>>, output |-> NullOutput]
NoRun == [mode |-> "none", pc |-> "idle", calls |-> <<>>, adapterCalls |-> <<>>,
          returned |-> NotReturned, yielded |-> <<>>]

Constructed(deps) ==
    /\ toolDeps = deps
    /\ tools = registerTools(deps)
    /\ mode = "none"
    /\ enabledTools = [present |-> FALSE, names |-> {}]
    /\ pc = "idle"
    /\ currentMessages = <<>>
    /\ turn = 0
    /\ response = NoResponse
    /\ pending = <<>>
    /\ req = NoRequest
    /\ yielded = <<>>
    /\ returned = NotReturned
    /\ calls = <<>>
    /\ adapterCalls = <<>>
    /\ script = <<>>
    /\ outcomes = <<>>
    /\ first = NoRun
    /\ pulling = FALSE

\* no search call yet
NoSearch == [pc |-> "idle", query |-> "", startedReady |-> FALSE, waits |-> 0,
             queryKind |-> "", exit |-> "", scored |-> <<>>, results |-> <<>>]

\* the agent runs against adapters given by their outcomes: no
\* LocalVectorKnowledgeBase instance is followed
KnowledgeBaseUnbuilt ==
    /\ indexPc = "none"
    /\ rawChunks = <<>>
    /\ embeds = <<>>
    /\ settled = <<>>
    /\ chunks = <<>>
    /\ isIndexed = FALSE
    /\ search = NoSearch
    /\ searches = 0

\* no semanticChunk call yet
NoChunking == [pc |-> "idle", text |-> <<>>, maxChunkSize |-> 0, overlapSize |-> 0,
               preserveHeaders |-> TRUE, sentences |-> <<>>, i |-> 0,
               currentChunk |-> <<>>, currentSize |-> 0, chunks |-> <<>>,
               lastOverlapSentences |-> <<>>, carried |-> 0, emitted |-> <<>>,
               exit |-> ""]

\* no call made on the Conversation yet
NoCall == [op |-> "none", raised |-> FALSE]

\* no toGenkitMessages call is followed on its own
NoConversion ==
    [pc |-> "idle", history |-> <<>>, given |-> <<>>, systemPrompt |-> "", result |-> <<>>]

\* no Message factory, repository, use case or request is followed
AppUnbuilt ==
    /\ entity = [made |-> [kind |-> "none"], messages |-> <<>>]
    /\ store = <<>>
    /\ held = <<>>
    /\ uc = [pc |-> "idle"]
    /\ posts = <<>>
    /\ converter = NoConversion

\* no Conversation instance is followed
ConversationUnbuilt ==
    /\ conv = [id |-> "none", messages |-> <<>>]
    /\ arrays = <<>>
    /\ snapshots = <<>>
    /\ lastCall = NoCall

Init ==
    /\ \E deps \in [webSearch : BOOLEAN, knowledgeBase : BOOLEAN] : Constructed(deps)
    /\ KnowledgeBaseUnbuilt
    /\ chunker = NoChunking
    /\ ConversationUnbuilt
    /\ AppUnbuilt

\* the agent the routes build: both adapters supplied
InitPair ==
    /\ Constructed([webSearch |-> TRUE, knowledgeBase |-> TRUE])
    /\ KnowledgeBaseUnbuilt
    /\ chunker = NoChunking
    /\ ConversationUnbuilt
    /\ AppUnbuilt

(***************************************************************************)
(* Entry points.                                                           *)
(***************************************************************************)
\* generateResponse(history, options): lines 212-220, up to the first
\* genkitClient.generate call of runAgentLoop
generateResponse ==
    /\ UNCHANGED <<kbVars, chunkVars, convVars, appVars>>
    /\ pc = "idle"
    /\ \E history \in Histories, systemPrompt \in SystemPrompts, enabled \in EnabledChoices :
        /\ currentMessages' = toGenkitMessages(history, systemPrompt)
        /\ enabledTools' = enabled
    /\ mode' = "buffered"
    /\ pc' = "generate"
    /\ UNCHANGED <<toolDeps, tools, turn, response, pending, req, yielded, returned,
                   calls, adapterCalls, script, outcomes, first, pulling>>

\* the generator is settled (returned or threw): no next() stays pending
Settled(p) == p \in {"done", "raised"}

\* generateStream(history, options) and the consumer's first next(), which
\* runs lines 300-315
generateStream ==
    /\ UNCHANGED <<kbVars, chunkVars, convVars, appVars>>
    /\ pc = "idle"
    /\ \E history \in Histories, systemPrompt \in SystemPrompts, enabled \in EnabledChoices :
        /\ currentMessages' = toGenkitMessages(history, systemPrompt)
        /\ enabledTools' = enabled
    /\ mode' = "stream"
    /\ turn' = 0
    /\ pc' = IF LoopCondition(0) THEN "generate" ELSE "done"
    /\ pulling' = ~Settled(pc')
    /\ UNCHANGED <<toolDeps, tools, response, pending, req, yielded, returned,
                   calls, adapterCalls, script, outcomes, first>>

\* the consumer's for await asks for the next fragment
consumerNext ==
    /\ UNCHANGED <<kbVars, chunkVars, convVars, appVars>>
    /\ mode = "stream"
    /\ ~pulling
    /\ ~Settled(pc)
    /\ pulling' = TRUE
    /\ UNCHANGED <<toolDeps, tools, mode, enabledTools, pc, currentMessages, turn,
                   response, pending, req, yielded, returned, calls, adapterCalls,
                   script, outcomes, first>>

\* the Completion Port is called with the transcript and this.tools, and answers
PortCall(r) ==
    /\ calls' = Append(calls, [messages |-> currentMessages,
                               tools |-> ToolsArgument(tools)])
    /\ response' = r
    /\ IF Len(calls) + 1 > Len(script)
       THEN /\ script' = Append(script, r)
            /\ outcomes' = Append(outcomes, "unset")
       ELSE UNCHANGED <<script, outcomes>>

(***************************************************************************)
(* Buffered mode: runAgentLoop, lines 225-295.                             *)
(***************************************************************************)
\* await genkitClient.generate({model, messages, tools})
runAgentLoopGenerate ==
    /\ UNCHANGED <<kbVars, chunkVars, convVars, appVars>>
    /\ mode = "buffered"
    /\ pc = "generate"
    /\ Len(calls) < MaxCalls
    /\ \E r \in PortAnswers(Len(calls) + 1) : PortCall(r)
    /\ pc' = "parse"
    /\ UNCHANGED <<toolDeps, tools, mode, enabledTools, currentMessages, turn,
                   pending, req, yielded, returned, adapterCalls, first, pulling>>

\* runAgentLoop returning only when toolRequests is null/undefined: an empty
\* list has nothing to execute and goes round the loop again
runAgentLoopParseLoopsOnEmpty ==
    /\ UNCHANGED <<kbVars, chunkVars, convVars, appVars>>
    /\ mode = "buffered"
    /\ pc = "parse"
    /\ LET toolRequests == ParseToolRequests(response.output)
       IN  IF ~toolRequests.defined
           THEN /\ returned' = [set |-> TRUE, text |-> Concat(response.chunks)]
                /\ pc' = "done"
                /\ UNCHANGED <<currentMessages, req>>
           ELSE IF Len(toolRequests.items) = 0
           THEN /\ pc' = "generate"
                /\ UNCHANGED <<currentMessages, req, returned>>
           ELSE /\ req' = toolRequests.items[1]
                /\ currentMessages' =
                       Append(currentMessages, ToolRequestMessage(toolRequests.items[1]))
                /\ pc' = "execute"
                /\ UNCHANGED returned
    /\ UNCHANGED <<toolDeps, tools, mode, enabledTools, turn, response, pending,
                   yielded, calls, adapterCalls, script, outcomes, first, pulling>>

\* lines 244-274: parse the tool requests; return response.text when there
\* are none, else push the model's tool request
runAgentLoopParse ==
    /\ UNCHANGED <<kbVars, chunkVars, convVars, appVars>>
    /\ mode = "buffered"
    /\ pc = "parse"
    /\ LET toolRequests == ParseToolRequests(response.output)
       IN  IF NoToolRequests(toolRequests)
           THEN /\ returned' = [set |-> TRUE, text |-> Concat(response.chunks)]
                /\ pc' = "done"
                /\ UNCHANGED <<currentMessages, req>>
           ELSE /\ req' = toolRequests.items[1]
                /\ currentMessages' =
                       Append(currentMessages, ToolRequestMessage(toolRequests.items[1]))
                /\ pc' = "execute"
                /\ UNCHANGED returned
    /\ UNCHANGED <<toolDeps, tools, mode, enabledTools, turn, response, pending,
                   yielded, calls, adapterCalls, script, outcomes, first, pulling>>

\* what an adapter invocation leaves in the logs
AdapterCalled(res, query, outcome) ==
    IF res.invoked # ""
    THEN /\ adapterCalls' = Append(adapterCalls,
                [tool |-> res.invoked, query |-> query, outcome |-> outcome,
                 turn |-> Len(calls)])
         /\ outcomes' = [outcomes EXCEPT ![Len(calls)] = outcome]
    ELSE UNCHANGED <<adapterCalls, outcomes>>

\* lines 276-293: await executeToolManually(...), push the tool response
runAgentLoopExecute ==
    /\ UNCHANGED <<kbVars, chunkVars, convVars, appVars>>
    /\ mode = "buffered"
    /\ pc = "execute"
    /\ \E outcome \in OutcomeChoices(Len(calls)) :
        LET toolResult == executeToolManually(req.toolName, req.query, toolDeps, outcome)
        IN  /\ AdapterCalled(toolResult, req.query, outcome)
            /\ IF toolResult.threw
               THEN /\ pc' = "raised"
                    /\ UNCHANGED currentMessages
               ELSE /\ currentMessages' =
                          Append(currentMessages,
                                 ToolResponseMessage(req, toolResult.result))
                    /\ pc' = "generate"
    /\ UNCHANGED <<toolDeps, tools, mode, enabledTools, turn, response, pending,
                   req, yielded, returned, calls, script, first, pulling>>

(***************************************************************************)
(* Streaming mode: generateStream, lines 315-397.                          *)
(***************************************************************************)
\* lines 315-329: turn++, await genkitClient.generateStream({...})
generateStreamCall ==
    /\ UNCHANGED <<kbVars, chunkVars, convVars, appVars>>
    /\ mode = "stream"
    /\ pc = "generate"
    /\ Resumed
    /\ turn' = turn + 1
    /\ \E r \in PortAnswers(Len(calls) + 1) :
        /\ PortCall(r)
        /\ pending' = r.chunks
    /\ pc' = "consume"
    /\ UNCHANGED <<toolDeps, tools, mode, enabledTools, currentMessages, req,
                   yielded, returned, adapterCalls, first, pulling>>

\* lines 334-341: one iteration of for await (const chunk of responseStream.stream)
generateStreamChunk ==
    /\ UNCHANGED <<kbVars, chunkVars, convVars, appVars>>
    /\ mode = "stream"
    /\ pc = "consume"
    /\ pending # <<>>
    /\ Resumed
    /\ LET textPart == Head(pending)
       IN  IF textPart # ""
           THEN /\ yielded' = Append(yielded, textPart)
                /\ pulling' = FALSE
           ELSE UNCHANGED <<yielded, pulling>>
    /\ pending' = Tail(pending)
    /\ UNCHANGED <<toolDeps, tools, mode, enabledTools, pc, currentMessages, turn,
                   response, req, returned, calls, adapterCalls, script, outcomes,
                   first>>

\* generateStream without the try/catch around the read of the tool
\* requests: a response whose structured portion cannot be read rejects
generateStreamParseNoCatch ==
    /\ UNCHANGED <<kbVars, chunkVars, convVars, appVars>>
    /\ mode = "stream"
    /\ pc = "consume"
    /\ pending = <<>>
    /\ Resumed
    /\ IF response.output.kind = "throws"
       THEN /\ pc' = "raised"
            /\ UNCHANGED <<currentMessages, req>>
       ELSE LET toolRequests == ParseToolRequests(response.output)
            IN  IF NoToolRequests(toolRequests)
                THEN /\ pc' = "done"
                     /\ UNCHANGED <<currentMessages, req>>
                ELSE /\ req' = toolRequests.items[1]
                     /\ currentMessages' =
                            Append(currentMessages,
                                   ToolRequestMessage(toolRequests.items[1]))
                     /\ pc' = "execute"
    /\ pulling' = ~Settled(pc')
    /\ UNCHANGED <<toolDeps, tools, mode, enabledTools, turn, response, pending,
                   yielded, returned, calls, adapterCalls, script, outcomes, first>>

\* lines 347-373: the stream has ended; await responseStream.response and
\* read its tool requests; return when that throws or there are none,
\* else push the model's tool request
generateStreamParse ==
    /\ UNCHANGED <<kbVars, chunkVars, convVars, appVars>>
    /\ mode = "stream"
    /\ pc = "consume"
    /\ pending = <<>>
    /\ Resumed
    /\ IF response.output.kind = "throws"
       THEN /\ pc' = "done"
            /\ UNCHANGED <<currentMessages, req>>
       ELSE LET toolRequests == ParseToolRequests(response.output)
            IN  IF NoToolRequests(toolRequests)
                THEN /\ pc' = "done"
                     /\ UNCHANGED <<currentMessages, req>>
                ELSE /\ req' = toolRequests.items[1]
                     /\ currentMessages' =
                            Append(currentMessages,
                                   ToolRequestMessage(toolRequests.items[1]))
                     /\ pc' = "execute"
    /\ pulling' = ~Settled(pc')
    /\ UNCHANGED <<toolDeps, tools, mode, enabledTools, turn, response, pending,
                   yielded, returned, calls, adapterCalls, script, outcomes, first>>

\* lines 375-397: call the adapter inside try/catch, push the tool response,
\* and test the loop condition again
generateStreamExecute ==
    /\ UNCHANGED <<kbVars, chunkVars, convVars, appVars>>
    /\ mode = "stream"
    /\ pc = "execute"
    /\ Resumed
    /\ \E outcome \in OutcomeChoices(Len(calls)) :
        LET res == toolResultContent(req, toolDeps, outcome)
        IN  /\ AdapterCalled(res, req.query, outcome)
            /\ IF res.threw
               THEN /\ pc' = "raised"
                    /\ UNCHANGED currentMessages
               ELSE /\ currentMessages' =
                          Append(currentMessages, ToolResponseMessage(req, res.result))
                    /\ pc' = IF LoopCondition(turn) THEN "generate" ELSE "done"
    /\ pulling' = ~Settled(pc')
    /\ UNCHANGED <<toolDeps, tools, mode, enabledTools, turn, response, pending,
                   req, yielded, returned, calls, script, first>>

(***************************************************************************)
(* Paired runs: when the run of one entry point is over, the other entry   *)
(* point is called on the same agent with the same initial transcript;     *)
(* the port and the adapters answer as they did before.                    *)
(***************************************************************************)
RunOver ==
    \/ pc \in {"done", "raised"}
    \/ mode = "buffered" /\ pc = "generate" /\ Len(calls) >= MaxCalls

OtherEntryPoint ==
    /\ UNCHANGED <<kbVars, chunkVars, convVars, appVars>>
    /\ first.mode = "none"
    /\ mode # "none"
    /\ RunOver
    /\ first' = [mode |-> mode, pc |-> pc, calls |-> calls,
                 adapterCalls |-> adapterCalls, returned |-> returned,
                 yielded |-> yielded]
    /\ mode' = IF mode = "buffered" THEN "stream" ELSE "buffered"
    /\ currentMessages' = calls[1].messages
    /\ turn' = 0
    /\ pc' = "generate"
    /\ response' = NoResponse
    /\ pending' = <<>>
    /\ req' = NoRequest
    /\ yielded' = <<>>
    /\ returned' = NotReturned
    /\ calls' = <<>>
    /\ adapterCalls' = <<>>
    /\ pulling' = (mode = "buffered")
    /\ UNCHANGED <<toolDeps, tools, enabledTools, script, outcomes>>

Next ==
    \/ generateResponse
    \/ generateStream
    \/ consumerNext
    \/ runAgentLoopGenerate
    \/ runAgentLoopParse
    \/ runAgentLoopExecute
    \/ generateStreamCall
    \/ generateStreamChunk
    \/ generateStreamParse
    \/ generateStreamExecute

NextPair == Next \/ OtherEntryPoint

Spec == Init /\ [][Next]_vars

SpecPair == InitPair /\ [][NextPair]_vars

(***************************************************************************)
(* LocalVectorKnowledgeBase (src/unnamed/part_009, lines 360-553): the     *)
(* vector index behind the knowledge_base adapter.  The constructor starts *)
(* indexDocuments, which reads the document, splits it into paragraphs     *)
(* and issues one ai.embed call per paragraph, all at once, before the     *)
(* constructor returns; the calls settle later, in any order.  The         *)
(* Embedding Port (ai.embed) is the environment.                           *)
(***************************************************************************)
\* number of search calls followed
MaxSearches == 2

\* match.score > 0.3, as the fraction ThresholdNum / ThresholdDen
ThresholdNum == 3
ThresholdDen == 10
\* .slice(0, 3)
TopK == 3
\* a paragraph of the document: leading whitespace and the text proper
Paragraph(lead, body) == [lead |-> lead, body |-> body]

\* the paragraph as it stands in the document
Raw(p) == p.lead \o p.body

\* text.trim()
Trim(p) == p.body

\* c.trim().length > 0
NonBlank(p) == Len(Trim(p)) > 0

\* content.split(/\n\s*\n/).filter(c => c.trim().length > 0)
SplitParagraphs(content) == SelectSeq(content, NonBlank)

\* fs.readFileSync(this.docsPath): an empty file, a document with a
\* whitespace-only paragraph, a document with a paragraph whose embedding
\* is the zero vector
Contents ==
    { <<>>,
      << Paragraph("", "alpha"), Paragraph(" ", ""), Paragraph(" ", "beta"),
         Paragraph("", "gamma"), Paragraph("", "delta") >>,
      << Paragraph("", "alpha"), Paragraph("", "null"), Paragraph(" ", "beta"),
         Paragraph("", "omega") >> }

\* fs.existsSync false, fs.readFileSync throwing, or the content read
DocLoads ==
    { [outcome |-> "missing", content |-> <<>>],
      [outcome |-> "throws", content |-> <<>>] }
        \cup { [outcome |-> "ok", content |-> c] : c \in Contents }

\* the vector the embedder computes for a text
EmbeddingOf(text) ==
    CASE text = "alpha" -> <<1, 1>>
      [] text = " beta" -> <<1, 0>>
      [] text = "gamma" -> <<1, 2>>
      [] text = "delta" -> <<2, 1>>
      [] text = "omega" -> <<0, 1>>
      [] text = "null" -> <<0, 0>>
      [] OTHER -> <<1, 0>>

\* what an ai.embed call settles with: a result holding an embedding, a
\* result extractEmbedding finds none in, or a rejection
InFlight == [kind |-> "inflight", vector |-> <<>>]
EmbedResults(text) ==
    { [kind |-> "embedding", vector |-> EmbeddingOf(text)],
      [kind |-> "unrecognized", vector |-> <<>>],
      [kind |-> "throws", vector |-> <<>>] }

\* search(query) arguments
Queries == {"what is rag"}

\* extractEmbedding(result): the embedding, or null
extractEmbedding(result) ==
    IF result.kind = "embedding"
    THEN [found |-> TRUE, vector |-> result.vector]
    ELSE [found |-> FALSE, vector |-> <<>>]

\* a vector attached to the chunk whatever its embed call settled with
DocumentChunkAlwaysVector(index, p, result) ==
    [id |-> index - 1, text |-> Trim(p), hasVector |-> TRUE,
     vector |-> IF result.kind = "embedding" THEN result.vector
                ELSE <<0, 0>>]

\* lines 417-446: the chunk built from the index-th paragraph once its
\* embed call has settled (ids count from 0)
DocumentChunk(index, p, result) ==
    IF result.kind # "throws" /\ extractEmbedding(result).found
    THEN [id |-> index - 1, text |-> Trim(p), hasVector |-> TRUE,
          vector |-> extractEmbedding(result).vector]
    ELSE [id |-> index - 1, text |-> Trim(p), hasVector |-> FALSE, vector |-> <<>>]

\* a Promise.all that resolves with the first call to settle
AnySettled(es) == \E i \in DOMAIN es : es[i].kind # "inflight"

\* await Promise.all(...): every embed call has settled
AllSettled(es) == \A i \in DOMAIN es : es[i].kind # "inflight"

(***************************************************************************)
(* cosineSimilarity and the scores.  A score dot / (|a| * |b|) is kept     *)
(* as the exact triple (dot, |a|^2, |b|^2); 0 / 0 is NaN.                  *)
(***************************************************************************)
RECURSIVE DotProduct(_, _, _)
DotProduct(vecA, vecB, i) ==
    IF i > Len(vecA) THEN 0
    ELSE vecA[i] * vecB[i] + DotProduct(vecA, vecB, i + 1)

cosineSimilarity(vecA, vecB) ==
    LET dotProduct == DotProduct(vecA, vecB, 1)
        magA2 == DotProduct(vecA, vecA, 1)
        magB2 == DotProduct(vecB, vecB, 1)
    IN  [nan |-> magA2 * magB2 = 0, dot |-> dotProduct, norm2 |-> magA2 * magB2]

Abs(x) == IF x < 0 THEN 0 - x ELSE x

\* s1 > s2 on numbers (false when either is NaN)
Greater(s1, s2) ==
    /\ ~s1.nan
    /\ ~s2.nan
    /\ s1.dot * Abs(s1.dot) * s2.norm2 > s2.dot * Abs(s2.dot) * s1.norm2

\* the threshold test passing scores of 0 and below as well
AboveThresholdLoose(s) == ~s.nan

\* match.score > 0.3
AboveThreshold(s) ==
    /\ ~s.nan
    /\ s.dot > 0
    /\ ThresholdDen * ThresholdDen * s.dot * s.dot > ThresholdNum * ThresholdNum * s.norm2

\* the orders of 1..n
Orders(n) == {f \in [1..n -> 1..n] : \A i, j \in 1..n : i # j => f[i] # f[j]}

\* Array.prototype.sort((a, b) => b.score - a.score): stable, descending.
\* With a NaN score the comparator is not a consistent one (it answers NaN,
\* taken as "equal", for pairs it orders through a third element) and the
\* order of the result is implementation-defined: any order may come out.
SortedByScore(scored) ==
    LET n == Len(scored)
        consistent == \A i \in 1..n : ~scored[i].score.nan
        Sorted(f) ==
            \A k, l \in 1..n :
                k < l =>
                    /\ ~Greater(scored[f[l]].score, scored[f[k]].score)
                    /\ (~Greater(scored[f[k]].score, scored[f[l]].score) => f[k] < f[l])
    IN  { [k \in 1..n |-> scored[f[k]]] : f \in {g \in Orders(n) : consistent => Sorted(g)} }

\* .slice(0, n)
Slice(s, n) == SubSeq(s, 1, IF Len(s) < n THEN Len(s) ELSE n)

RECURSIVE MapText(_)
MapText(ms) == IF ms = <<>> THEN <<>> ELSE <<Head(ms).text>> \o MapText(Tail(ms))

HasVector(chunk) == chunk.hasVector
IsRelevant(match) == AboveThreshold(match.score)

\* lines 509-515 before the sort: the vectorized chunks with their scores
ScoreChunks(queryVector, cs) ==
    LET vectorized == SelectSeq(cs, HasVector)
    IN  [k \in 1..Len(vectorized) |->
            [text |-> vectorized[k].text,
             score |-> cosineSimilarity(queryVector, vectorized[k].vector)]]

\* lines 526-529: filter by threshold, keep the first three, take the texts
TopResults(scoredChunks) == MapText(Slice(SelectSeq(scoredChunks, IsRelevant), TopK))

\* return [] at line 502 (no query vector) or line 540 (catch)
NoResults(exit) == [raised |-> FALSE, exit |-> exit, scored |-> <<>>, results |-> <<>>]

\* search without its try/catch: a rejected ai.embed rejects search
searchOutcomesNoCatch(queryResult, cs) ==
    IF queryResult.kind = "throws"
    THEN {[raised |-> TRUE, exit |-> "error", scored |-> <<>>, results |-> <<>>]}
    ELSE IF ~extractEmbedding(queryResult).found
    THEN {NoResults("noVector")}
    ELSE { [raised |-> FALSE, exit |-> "scored", scored |-> sc,
             results |-> TopResults(sc)] :
              sc \in SortedByScore(ScoreChunks(extractEmbedding(queryResult).vector, cs)) }

\* lines 488-541: what search resolves with once the query's ai.embed call
\* has settled with queryResult, over the chunk list cs
searchOutcomes(queryResult, cs) ==
    IF queryResult.kind = "throws"
    THEN {NoResults("catch")}
    ELSE IF ~extractEmbedding(queryResult).found
    THEN {NoResults("noVector")}
    ELSE { [raised |-> FALSE, exit |-> "scored", scored |-> sc,
             results |-> TopResults(sc)] :
              sc \in SortedByScore(ScoreChunks(extractEmbedding(queryResult).vector, cs)) }

(***************************************************************************)
(* State after new LocalVectorKnowledgeBase(): lines 365-383 and the       *)
(* synchronous part of indexDocuments (lines 388-422).                     *)
(***************************************************************************)
constructor(load) ==
    /\ indexPc = CASE load.outcome = "missing" -> "notfound"
                   [] load.outcome = "throws" -> "failed"
                   [] OTHER -> "embedding"
    /\ rawChunks = SplitParagraphs(load.content)
    /\ embeds = [i \in 1..Len(SplitParagraphs(load.content)) |-> InFlight]
    /\ settled = <<>>
    /\ chunks = <<>>
    /\ isIndexed = FALSE
    /\ search = NoSearch
    /\ searches = 0

\* the knowledge base is built for an agent that is given no web search
InitKB ==
    /\ Constructed([webSearch |-> FALSE, knowledgeBase |-> TRUE])
    /\ \E load \in DocLoads : constructor(load)
    /\ chunker = NoChunking
    /\ ConversationUnbuilt
    /\ AppUnbuilt

\* one of the ai.embed calls of indexDocuments settles
embedChunkSettles ==
    /\ indexPc = "embedding"
    /\ \E i \in DOMAIN embeds :
        /\ embeds[i] = InFlight
        /\ \E result \in EmbedResults(Raw(rawChunks[i])) :
              embeds' = [embeds EXCEPT ![i] = result]
        /\ settled' = Append(settled, i)
    /\ UNCHANGED <<indexPc, rawChunks, chunks, isIndexed, search, searches>>
    /\ UNCHANGED <<agentVars, chunkVars, convVars, appVars>>

\* indexing with each callback pushing its chunk onto this.chunks when its
\* own ai.embed call settles
indexDocumentsFinishInCompletionOrder ==
    /\ indexPc = "embedding"
    /\ AllSettled(embeds)
    /\ chunks' = [k \in 1..Len(settled) |->
                    DocumentChunk(settled[k], rawChunks[settled[k]], embeds[settled[k]])]
    /\ isIndexed' = TRUE
    /\ indexPc' = "done"
    /\ UNCHANGED <<rawChunks, embeds, settled, search, searches>>
    /\ UNCHANGED <<agentVars, chunkVars, convVars, appVars>>

\* lines 416-461: Promise.all resolves, this.chunks is assigned and
\* this.isIndexed set, with no await in between
indexDocumentsFinish ==
    /\ indexPc = "embedding"
    /\ AllSettled(embeds)
    /\ chunks' = [i \in 1..Len(rawChunks) |-> DocumentChunk(i, rawChunks[i], embeds[i])]
    /\ isIndexed' = TRUE
    /\ indexPc' = "done"
    /\ UNCHANGED <<rawChunks, embeds, settled, search, searches>>
    /\ UNCHANGED <<agentVars, chunkVars, convVars, appVars>>

(***************************************************************************)
(* search(query): lines 471-542.                                           *)
(***************************************************************************)
\* search without its readiness gate: it issues the query's ai.embed call
\* whatever this.isIndexed holds
searchStartUngated ==
    /\ indexPc # "none"
    /\ search.pc \in {"idle", "returned"}
    /\ searches < MaxSearches
    /\ \E query \in Queries :
        search' = [pc |-> "embedding",
                   query |-> query,
                   startedReady |-> isIndexed,
                   waits |-> 0,
                   queryKind |-> "",
                   exit |-> "",
                   scored |-> <<>>,
                   results |-> <<>>]
    /\ searches' = searches + 1
    /\ UNCHANGED <<indexPc, rawChunks, embeds, settled, chunks, isIndexed>>
    /\ UNCHANGED <<agentVars, chunkVars, convVars, appVars>>

\* lines 471-481: a caller invokes search; not indexed, it starts the
\* 500 ms pause, else it issues the query's ai.embed call
searchStart ==
    /\ indexPc # "none"
    /\ search.pc \in {"idle", "returned"}
    /\ searches < MaxSearches
    /\ \E query \in Queries :
        search' = [pc |-> IF isIndexed THEN "embedding" ELSE "waiting",
                   query |-> query,
                   startedReady |-> isIndexed,
                   waits |-> IF isIndexed THEN 0 ELSE 1,
                   queryKind |-> "",
                   exit |-> "",
                   scored |-> <<>>,
                   results |-> <<>>]
    /\ searches' = searches + 1
    /\ UNCHANGED <<indexPc, rawChunks, embeds, settled, chunks, isIndexed>>
    /\ UNCHANGED <<agentVars, chunkVars, convVars, appVars>>

\* the continuation of indexDocumentsFinish is ready to run: a microtask,
\* which the event loop runs before any timer callback
IndexingResumes == indexPc = "embedding" /\ AllSettled(embeds)

\* the pause as a retry: still not indexed after the first pause, search
\* pauses once more
searchAfterPauseRetries ==
    /\ search.pc = "waiting"
    /\ ~IndexingResumes
    /\ search' = IF isIndexed
                 THEN [search EXCEPT !.pc = "embedding"]
                 ELSE IF search.waits < 2
                 THEN [search EXCEPT !.waits = search.waits + 1]
                 ELSE [search EXCEPT !.pc = "returned", !.exit = "notReady"]
    /\ UNCHANGED <<indexPc, rawChunks, embeds, settled, chunks, isIndexed, searches>>
    /\ UNCHANGED <<agentVars, chunkVars, convVars, appVars>>

\* lines 481-486: the pause is over; still not indexed, search returns [],
\* else it issues the query's ai.embed call
searchAfterPause ==
    /\ search.pc = "waiting"
    /\ ~IndexingResumes
    /\ search' = IF isIndexed
                 THEN [search EXCEPT !.pc = "embedding"]
                 ELSE [search EXCEPT !.pc = "returned", !.exit = "notReady"]
    /\ UNCHANGED <<indexPc, rawChunks, embeds, settled, chunks, isIndexed, searches>>
    /\ UNCHANGED <<agentVars, chunkVars, convVars, appVars>>

\* lines 488-541: the query's ai.embed call settles; search scores
\* this.chunks and returns
searchEmbedSettles ==
    /\ search.pc = "embedding"
    /\ \E queryResult \in EmbedResults(search.query) :
        \E out \in searchOutcomes(queryResult, chunks) :
            search' = [search EXCEPT !.pc = IF out.raised THEN "raised" ELSE "returned",
                                     !.queryKind = queryResult.kind,
                                     !.exit = out.exit,
                                     !.scored = out.scored,
                                     !.results = out.results]
    /\ UNCHANGED <<indexPc, rawChunks, embeds, settled, chunks, isIndexed, searches>>
    /\ UNCHANGED <<agentVars, chunkVars, convVars, appVars>>

NextKB ==
    \/ embedChunkSettles
    \/ indexDocumentsFinish
    \/ searchStart
    \/ searchAfterPause
    \/ searchEmbedSettles

SpecKB == InitKB /\ [][NextKB]_vars

\* the event loop runs every continuation that is ready: a settled ai.embed
\* call resumes its awaiter, Promise.all resolves once its members have, the
\* 500 ms timer fires; and every ai.embed call settles
SpecKBFair ==
    /\ SpecKB
    /\ WF_vars(embedChunkSettles)
    /\ WF_vars(indexDocumentsFinish)
    /\ WF_vars(searchAfterPause)
    /\ WF_vars(searchEmbedSettles)

(***************************************************************************)
(* Properties.                                                             *)
(***************************************************************************)
Range(f) == {f[i] : i \in DOMAIN f}

Last(q) == q[Len(q)]

\* the response carries no tool request: output null, or an empty list
CarriesNoToolRequest(r) ==
    \/ r.output.kind = "null"
    \/ r.output.kind = "list" /\ r.output.toolRequests = <<>>

\* the response carries exactly one tool request, for an adapter the agent has
CarriesOneRequestFor(r, name) ==
    /\ r.output.kind = "list"
    /\ Len(r.output.toolRequests) = 1
    /\ r.output.toolRequests[1].toolName = name
    /\ name \in Range(tools)

C2_BufferedBounded ==
    mode = "buffered" => Len(calls) <= maxTurns

\* the adapter was invoked in this step and threw
AdapterThrewNow ==
    /\ Len(adapterCalls') = Len(adapterCalls) + 1
    /\ Last(adapterCalls').outcome = "throws"

\* the failure is folded into the transcript under the request's ref and
\* the run goes on
FailureFolded ==
    /\ pc' # "raised"
    /\ Len(currentMessages') = Len(currentMessages) + 1
    /\ SubSeq(currentMessages', 1, Len(currentMessages)) = currentMessages
    /\ LET m == Last(currentMessages')
       IN  /\ m.role = "tool"
           /\ m.part = "toolResponse"
           /\ m.name = req.toolName
           /\ m.ref = req.ref
           /\ m.output = ResultText("Error: " \o AdapterErrorMessage)

\* C3: in streaming mode a throwing adapter does not end the run: an error
\* description is appended as the tool message under the request's ref and,
\* while the turn budget lasts, the next Completion Port call follows.
C3_StreamToolFailureFolded ==
    [][ (mode = "stream" /\ AdapterThrewNow) =>
            /\ FailureFolded
            /\ (turn < maxTurns => pc' = "generate") ]_vars

\* the adapter threw, and the next port call was made with the error message
C3_Witness ==
    /\ mode = "stream"
    /\ \E i \in DOMAIN adapterCalls :
        /\ adapterCalls[i].outcome = "throws"
        /\ Len(calls) > adapterCalls[i].turn
        /\ Last(calls[adapterCalls[i].turn + 1].messages).output
               = ResultText("Error: " \o AdapterErrorMessage)

\* C4: in buffered mode a throwing adapter does not fail generateResponse:
\* an error description is appended as the tool message and the next
\* Completion Port call follows.
C4_BufferedToolFailureFolded ==
    [][ (mode = "buffered" /\ AdapterThrewNow) =>
            /\ FailureFolded
            /\ pc' = "generate" ]_vars

\* the tool names the request's enabledTools admits
Enabled(name) == ~enabledTools.present \/ name \in enabledTools.names

\* C5: every Completion Port call is given exactly the registered tools
\* that enabledTools admits, and no adapter outside enabledTools is invoked.
C5_CatalogFiltered ==
    /\ \A i \in DOMAIN calls :
        Range(calls[i].tools.tools) = {n \in Range(tools) : Enabled(n)}
    /\ \A i \in DOMAIN adapterCalls : Enabled(adapterCalls[i].tool)

\* the buffered run got one request for tool name and then a plain answer
RoundTrip(name) ==
    /\ mode = "buffered"
    /\ Len(script) >= 2
    /\ CarriesOneRequestFor(script[1], name)
    /\ CarriesNoToolRequest(script[2])

RoundTripHolds(name) ==
    LET r == script[1].output.toolRequests[1]
    IN  /\ Len(script) = 2
        /\ Len(calls) = 2
        /\ pc \in {"parse", "done"}
        /\ Len(adapterCalls) = 1
        /\ adapterCalls[1].tool = name
        /\ adapterCalls[1].query = r.query
        /\ adapterCalls[1].outcome # "throws"
        /\ calls[2].messages =
              calls[1].messages \o
                  << ToolRequestMessage(r),
                     ToolResponseMessage(r,
                        ResultList(SearchResults(name, r.query, adapterCalls[1].outcome))) >>
        /\ (pc = "done" => returned = [set |-> TRUE, text |-> Concat(script[2].chunks)])

\* C6: buffered mode, one request for web_search (knowledge_base) with
\* query q and then an answer without tool request: that adapter is invoked
\* exactly once with q, the other not at all, the port exactly twice, the
\* second transcript ends with the request and its result, and the second
\* answer's text is returned.
C6_ToolRoundTrip ==
    \A name \in ToolNames : RoundTrip(name) => RoundTripHolds(name)

C6_Witness ==
    /\ RoundTrip(WEB_SEARCH)
    /\ pc = "done"
    /\ adapterCalls[1].outcome = "found"
    /\ returned.text = "ab"

\* C7: buffered mode, the first answer has no tool request: that answer's
\* text is returned, the port is called exactly once, no adapter is invoked.
C7_DirectAnswer ==
    (mode = "buffered" /\ Len(script) >= 1 /\ CarriesNoToolRequest(script[1])) =>
        /\ Len(calls) = 1
        /\ Len(script) = 1
        /\ adapterCalls = <<>>
        /\ pc \in {"parse", "done"}
        /\ (pc = "done" => returned = [set |-> TRUE, text |-> Concat(script[1].chunks)])

C7_Witness ==
    /\ mode = "buffered"
    /\ pc = "done"
    /\ Len(script) = 1
    /\ CarriesNoToolRequest(script[1])
    /\ returned = [set |-> TRUE, text |-> "ab"]

\* the two finished runs, by entry point
BufferedRun == IF mode = "buffered"
               THEN [calls |-> calls, adapterCalls |-> adapterCalls, returned |-> returned]
               ELSE [calls |-> first.calls, adapterCalls |-> first.adapterCalls,
                     returned |-> first.returned]

StreamRun == IF mode = "stream"
             THEN [calls |-> calls, adapterCalls |-> adapterCalls, yielded |-> yielded]
             ELSE [calls |-> first.calls, adapterCalls |-> first.adapterCalls,
                   yielded |-> first.yielded]

\* C8: against the same port and adapters, generateResponse and
\* generateStream make the same Completion Port calls and adapter calls,
\* and the string generateResponse returns is the concatenation of the
\* fragments generateStream yields.
C8_ModesAgree ==
    (first.mode # "none" /\ first.pc = "done" /\ pc = "done") =>
        /\ BufferedRun.calls = StreamRun.calls
        /\ BufferedRun.adapterCalls = StreamRun.adapterCalls
        /\ BufferedRun.returned = [set |-> TRUE, text |-> Concat(StreamRun.yielded)]

\* the adapter invocation, if any, behind the tool message with this ref
InvocationFor(ref) == {i \in DOMAIN adapterCalls : 10 * adapterCalls[i].turn + 1 = ref}

\* C9: a tool message recording an empty adapter result carries "No
\* information found for this query".
C9_EmptyResultExplicit ==
    \A j \in DOMAIN currentMessages :
        (/\ currentMessages[j].part = "toolResponse"
         /\ \E i \in InvocationFor(currentMessages[j].ref) :
                adapterCalls[i].outcome = "empty")
        => currentMessages[j].output = ResultText("No information found for this query")

\* C10: a tool message answering a request for a tool the agent has no
\* adapter for carries "Tool unavailable", no adapter was invoked for it,
\* and the run goes on to the next Completion Port call.
C10_UnregisteredToolUnavailable ==
    \A j \in DOMAIN currentMessages :
        (currentMessages[j].part = "toolResponse" /\ currentMessages[j].name \notin Range(tools))
        => /\ currentMessages[j].output = ResultText("Tool unavailable")
           /\ InvocationFor(currentMessages[j].ref) = {}
           /\ pc # "raised"

\* the text fragments of the first k responses, in order, empty ones dropped
RECURSIVE Fragments(_)
Fragments(k) ==
    IF k = 0 THEN <<>>
    ELSE Fragments(k - 1) \o SelectSeq(script[k].chunks, LAMBDA c : c # "")

\* reading the tool requests of the k-th response failed
ParseFailed(k) == k \in DOMAIN script /\ script[k].output.kind = "throws"

\* C11: in both modes a response whose tool-request portion cannot be read
\* ends the run as a response without tool request does: no adapter is
\* invoked for it, no further Completion Port call follows, nothing is
\* raised, and the result is the text produced so far (the response text in
\* buffered mode, the fragments yielded in streaming mode).
C11_ParseFailureEndsRun ==
    \A k \in DOMAIN calls :
        ParseFailed(k) =>
            /\ Len(calls) = k
            /\ \A i \in DOMAIN adapterCalls : adapterCalls[i].turn # k
            /\ pc \in {"parse", "consume", "done"}
            /\ currentMessages = calls[k].messages
            /\ (mode = "buffered" /\ pc = "done"
                    => returned = [set |-> TRUE, text |-> Concat(script[k].chunks)])
            /\ (mode = "stream" /\ pc = "done" => yielded = Fragments(k))

\* a streaming run whose second response could not be read, after one tool
\* round trip: it is over with the fragments of both responses
C11_Witness ==
    /\ mode = "stream"
    /\ pc = "done"
    /\ Len(calls) = 2
    /\ ParseFailed(2)
    /\ Len(adapterCalls) = 1
    /\ yielded = <<"a", "b", "a", "b">>

\* tool messages of a transcript come in adjacent request/result pairs
WellPaired(ms) ==
    \A j \in DOMAIN ms :
        /\ (ms[j].role = "tool" \/ ms[j].part = "toolResponse") =>
               /\ ms[j].role = "tool"
               /\ ms[j].part = "toolResponse"
               /\ j > 1
               /\ ms[j - 1].role = "model"
               /\ ms[j - 1].part = "toolRequest"
               /\ ms[j - 1].name = ms[j].name
               /\ ms[j - 1].ref = ms[j].ref
        /\ ms[j].part = "toolRequest" =>
               /\ ms[j].role = "model"
               /\ j < Len(ms)
               /\ ms[j + 1].role = "tool"
               /\ ms[j + 1].part = "toolResponse"
               /\ ms[j + 1].name = ms[j].name
               /\ ms[j + 1].ref = ms[j].ref

\* transcript b is transcript a with messages appended
Extends(a, b) == Len(a) <= Len(b) /\ SubSeq(b, 1, Len(a)) = a

\* C12: in every transcript passed to the Completion Port, in both modes,
\* tool messages occur only as a model tool-request message immediately
\* followed by the tool message with the same name and ref, and each
\* transcript is the previous call's transcript with one such pair appended.
C12_TranscriptPaired ==
    \A i \in DOMAIN calls :
        /\ WellPaired(calls[i].messages)
        /\ i > 1 =>
               /\ Extends(calls[i - 1].messages, calls[i].messages)
               /\ Len(calls[i].messages) = Len(calls[i - 1].messages) + 2
               /\ calls[i].messages[Len(calls[i].messages)].part = "toolResponse"

\* a third call whose transcript holds two request/result pairs, one of
\* them recording a failed adapter
C12_Witness ==
    /\ Len(calls) >= 3
    /\ LET ms == calls[3].messages
       IN  /\ Cardinality({j \in DOMAIN ms : ms[j].part = "toolResponse"}) = 2
           /\ \E j \in DOMAIN ms : ms[j].output = ResultText("Error: " \o AdapterErrorMessage)

\* C13: generateStream is pull-driven.  A step of a streaming run that calls
\* the Completion Port or an adapter is taken while a next() of the consumer
\* is pending; while none is pending (the consumer holds a fragment and has
\* not asked for more) the run makes no call, raises nothing and stays
\* where it is; and the fragments delivered so far are never taken back or
\* changed by what follows.
C13_PullDriven ==
    [][ (mode = "stream" /\ mode' = "stream") =>
            /\ (calls' # calls \/ adapterCalls' # adapterCalls) => pulling
            /\ ~pulling =>
                   /\ pc # "raised"
                   /\ UNCHANGED <<calls, adapterCalls, pc, currentMessages, yielded>>
            /\ Extends(yielded, yielded') ]_vars

\* the consumer holds the first fragment of the second turn and has not
\* asked for more: one port call is still outstanding in the script of a
\* port that goes on asking for tools
C13_Witness ==
    /\ mode = "stream"
    /\ ~pulling
    /\ pc = "consume"
    /\ Len(calls) = 2
    /\ Len(adapterCalls) = 1
    /\ yielded = <<"a", "b", "a">>
    /\ pending = <<"", "b">>
    /\ ~CarriesNoToolRequest(response) /\ response.output.kind = "list"

(***************************************************************************)
(* Properties of LocalVectorKnowledgeBase.                                 *)
(***************************************************************************)
\* the search call is in progress
Searching == search.pc \in {"waiting", "embedding"}

C15_SearchAwaitsIndexing ==
    (search.pc = "returned" /\ ~search.startedReady /\ indexPc \in {"embedding", "done"})
        => search.exit # "notReady"

\* C16: isIndexed never goes back from true to false, and whenever it is
\* true every embed call has settled and this.chunks holds one chunk per
\* paragraph of the document, in order.
C16_ReadyOnceComplete ==
    /\ [][isIndexed => isIndexed']_vars
    /\ [](isIndexed =>
            /\ \A i \in DOMAIN embeds : embeds[i] # InFlight
            /\ Len(chunks) = Len(rawChunks)
            /\ \A i \in DOMAIN rawChunks :
                   chunks[i].id = i - 1 /\ chunks[i].text = Trim(rawChunks[i]))

\* the index is ready over four chunks, some embedded and some not
C16_Witness ==
    /\ isIndexed
    /\ Len(chunks) = 4
    /\ \E i, j \in DOMAIN chunks : chunks[i].hasVector /\ ~chunks[j].hasVector

\* C17: after construction the index eventually becomes ready, whatever the
\* outcome of loading the document, provided every embed call settles.
C17_EventuallyReady == <>isIndexed

\* the score search computed for the chunk with this text
ScoreOf(text) == (CHOOSE m \in Range(search.scored) : m.text = text).score

\* the texts of the scored chunks whose similarity is above 0.3
RelevantTexts ==
    {m.text : m \in {x \in Range(search.scored) : AboveThreshold(x.score)}}

\* C18: when search scores chunks, it returns texts of vectorized chunks
\* with similarity above 0.3, at most 3 of them and as many as there are up
\* to 3, from most to least similar, and no chunk left out scores higher
\* than one returned.
C18_TopRelevantDescending ==
    (search.pc = "returned" /\ search.exit = "scored") =>
        LET res == search.results
        IN  /\ {m.text : m \in Range(search.scored)}
                   = {c.text : c \in {x \in Range(chunks) : x.hasVector}}
            /\ Len(res) <= TopK
            /\ Range(res) \subseteq RelevantTexts
            /\ Cardinality(Range(res)) = Len(res)
            /\ Len(res) = TopK \/ Range(res) = RelevantTexts
            /\ \A k, l \in DOMAIN res :
                   k < l => ~Greater(ScoreOf(res[l]), ScoreOf(res[k]))
            /\ \A t \in RelevantTexts \ Range(res) :
                   \A k \in DOMAIN res : ~Greater(ScoreOf(t), ScoreOf(res[k]))

\* the embed call of the i-th chunk failed or gave no vector
EmbedFailed(i) == embeds[i].kind \in {"throws", "unrecognized"}

\* C19: when the embed call of a chunk fails or yields no vector, the index
\* still becomes ready, with the other chunks carrying their own vectors
\* and this chunk kept, with its text, without a vector; search neither
\* scores it nor returns its text.
C19_FailedChunkKeptUnscored ==
    /\ [](isIndexed =>
            \A i \in DOMAIN embeds :
                /\ chunks[i].text = Trim(rawChunks[i])
                /\ EmbedFailed(i) =>
                       /\ ~chunks[i].hasVector
                       /\ chunks[i].text \notin Range(search.results)
                       /\ \A m \in Range(search.scored) : m.text # chunks[i].text
                /\ ~EmbedFailed(i) =>
                       /\ chunks[i].hasVector
                       /\ chunks[i].vector = EmbeddingOf(Raw(rawChunks[i])))
    /\ (indexPc = "embedding" ~> isIndexed)

\* one embed call was rejected and one gave no vector; the index is ready
\* and a search returned the two other chunks
C19_Witness ==
    /\ isIndexed
    /\ Len(chunks) = 4
    /\ embeds[1].kind = "throws"
    /\ embeds[3].kind = "unrecognized"
    /\ search.pc = "returned"
    /\ search.exit = "scored"
    /\ Len(search.results) = 2

\* C20: search never raises; it returns a list, the empty one when the
\* query's embed call fails or yields no vector.
C20_SearchNeverRaises ==
    /\ search.pc # "raised"
    /\ (search.pc = "returned" /\ search.queryKind \in {"throws", "unrecognized"})
           => search.results = <<>>

\* the index is ready with vectors, the query's embed call was rejected and
\* the search returned
C20_Witness ==
    /\ search.pc = "returned"
    /\ search.queryKind = "throws"
    /\ isIndexed
    /\ \E i \in DOMAIN chunks : chunks[i].hasVector

(***************************************************************************)
(* C21: cosineSimilarity(a, b) returns the number 0, and neither raises    *)
(* nor returns NaN, whenever a or b has zero magnitude.  Stated on the     *)
(* scores a search computed: a score whose |a|^2 * |b|^2 is 0 is the       *)
(* number 0.                                                               *)
(***************************************************************************)
C21_ZeroMagnitudeIsZero ==
    \A k \in DOMAIN search.scored :
        search.scored[k].score.norm2 = 0
            => /\ ~search.scored[k].score.nan
               /\ search.scored[k].score.dot = 0

(***************************************************************************)
(* semanticChunk (semanticChunker.ts).  A text is a sequence of            *)
(* characters, each a string of length one; a sentence and a chunk are     *)
(* texts as well.                                                          *)
(***************************************************************************)
MaxTextLen == 6

Chars == {"a", ".", " "}

Texts == UNION {[1..n -> Chars] : n \in 0..MaxTextLen}

\* \s of the regular expressions and of String.prototype.trim
IsSpace(c) == c = " "

\* [.!?] of the sentence boundary
IsTerminator(c) == c \in {".", "!", "?"}

RECURSIVE TrimStart(_)
TrimStart(t) == IF t # <<>> /\ IsSpace(Head(t)) THEN TrimStart(Tail(t)) ELSE t

RECURSIVE TrimEnd(_)
TrimEnd(t) ==
    IF t # <<>> /\ IsSpace(t[Len(t)]) THEN TrimEnd(SubSeq(t, 1, Len(t) - 1)) ELSE t

\* String.prototype.trim
StringTrim(t) == TrimEnd(TrimStart(t))

\* text.split(/(?<=[.!?])\s+/): the pieces between the whitespace runs that
\* follow a terminator; piece is the piece being read at position i
RECURSIVE SplitAfterTerminators(_, _, _)
SplitAfterTerminators(t, i, piece) ==
    IF i > Len(t) THEN <<piece>>
    ELSE IF IsSpace(t[i]) /\ i > 1 /\ IsTerminator(t[i - 1])
         THEN LET rest == TrimStart(SubSeq(t, i, Len(t)))
              IN  <<piece>> \o SplitAfterTerminators(rest, 1, <<>>)
         ELSE SplitAfterTerminators(t, i + 1, Append(piece, t[i]))

RECURSIVE MapTrim(_)
MapTrim(pieces) ==
    IF pieces = <<>> THEN <<>>
    ELSE <<StringTrim(Head(pieces))>> \o MapTrim(Tail(pieces))

NonEmptyText(t) == Len(t) > 0

\* splitIntoSentences, lines 22-31
splitIntoSentences(text) ==
    SelectSeq(MapTrim(SplitAfterTerminators(text, 1, <<>>)), NonEmptyText)

\* Array.prototype.join(' ')
RECURSIVE Join(_)
Join(ss) ==
    IF ss = <<>> THEN <<>>
    ELSE IF Len(ss) = 1 THEN ss[1]
    ELSE ss[1] \o <<" ">> \o Join(Tail(ss))

\* lines 76-78, the test trimmedText.length < maxChunkSize in its place
FitsInOneChunkStrict(trimmedText, maxChunkSize) == Len(trimmedText) < maxChunkSize

\* lines 76-78: trimmedText.length <= maxChunkSize
FitsInOneChunk(trimmedText, maxChunkSize) == Len(trimmedText) <= maxChunkSize

\* lines 109-116: the loop from the last sentence of currentChunk backwards;
\* j is the index about to be tested, overlap what was unshifted so far
RECURSIVE OverlapSentences(_, _, _, _, _)
OverlapSentences(currentChunk, j, overlap, overlapLength, overlapSize) ==
    IF j >= 1 /\ overlapLength < overlapSize
    THEN OverlapSentences(currentChunk, j - 1, <<currentChunk[j]>> \o overlap,
                          overlapLength + Len(currentChunk[j]) + 1, overlapSize)
    ELSE overlap

\* semanticChunk(text, options), lines 62-93: the early returns and the
\* start of the loop; overlapSize 0 is also the default of an absent option.
\* One call is followed: the function keeps nothing between calls.
semanticChunk ==
    /\ chunker.pc = "idle"
    /\ \E text \in Texts, maxChunkSize \in 1..MaxTextLen,
          overlapSize \in 0..MaxTextLen, preserveHeaders \in BOOLEAN :
         LET trimmedText == StringTrim(text)
             sentences == splitIntoSentences(trimmedText)
             call == [NoChunking EXCEPT !.text = text,
                                        !.maxChunkSize = maxChunkSize,
                                        !.overlapSize = overlapSize,
                                        !.preserveHeaders = preserveHeaders]
         IN  chunker' =
               IF trimmedText = <<>>
               THEN [call EXCEPT !.pc = "done", !.exit = "empty"]
               ELSE IF FitsInOneChunk(trimmedText, maxChunkSize)
               THEN [call EXCEPT !.pc = "done", !.exit = "single",
                                 !.chunks = <<trimmedText>>]
               ELSE IF sentences = <<>>
               THEN [call EXCEPT !.pc = "done", !.exit = "nosentences",
                                 !.chunks = <<trimmedText>>]
               ELSE [call EXCEPT !.pc = "loop", !.sentences = sentences, !.i = 1]
    /\ UNCHANGED <<agentVars, kbVars, convVars, appVars>>

\* one iteration of the loop over the sentences, lines 95-126
semanticChunkSentence ==
    /\ chunker.pc = "loop"
    /\ LET c == chunker
           sentence == c.sentences[c.i]
           separator == IF Len(c.currentChunk) > 0 THEN 1 ELSE 0
           wouldExceed == c.currentSize + separator + Len(sentence) > c.maxChunkSize
           emits == wouldExceed /\ Len(c.currentChunk) > 0
           overlap == IF c.overlapSize > 0
                      THEN OverlapSentences(c.currentChunk, Len(c.currentChunk),
                                            <<>>, 0, c.overlapSize)
                      ELSE c.lastOverlapSentences
           started == IF emits THEN overlap ELSE c.currentChunk
           newChunk == Append(started, sentence)
       IN  chunker' =
             [c EXCEPT
                !.chunks = IF emits THEN Append(@, Join(c.currentChunk)) ELSE @,
                !.emitted = IF emits
                            THEN Append(@, [sentences |-> c.currentChunk,
                                            carried |-> c.carried])
                            ELSE @,
                !.lastOverlapSentences = IF emits THEN overlap ELSE @,
                !.carried = IF emits THEN Len(overlap) ELSE @,
                !.currentChunk = newChunk,
                !.currentSize = Len(Join(newChunk)),
                !.i = c.i + 1,
                !.pc = IF c.i = Len(c.sentences) THEN "final" ELSE "loop"]
    /\ UNCHANGED <<agentVars, kbVars, convVars, appVars>>

\* after the loop, lines 128-143: the last chunk, unless it repeats the
\* chunk before it
semanticChunkLast ==
    /\ chunker.pc = "final"
    /\ LET c == chunker
           chunkText == Join(c.currentChunk)
           pushes == /\ Len(c.currentChunk) > 0
                     /\ \/ Len(c.chunks) = 0
                        \/ c.chunks[Len(c.chunks)] # chunkText
       IN  chunker' =
             [c EXCEPT
                !.chunks = IF pushes THEN Append(@, chunkText) ELSE @,
                !.emitted = IF pushes
                            THEN Append(@, [sentences |-> c.currentChunk,
                                            carried |-> c.carried])
                            ELSE @,
                !.pc = "done",
                !.exit = "chunked"]
    /\ UNCHANGED <<agentVars, kbVars, convVars, appVars>>

InitChunk ==
    /\ Constructed([webSearch |-> FALSE, knowledgeBase |-> FALSE])
    /\ KnowledgeBaseUnbuilt
    /\ chunker = NoChunking
    /\ ConversationUnbuilt
    /\ AppUnbuilt

NextChunk ==
    \/ semanticChunk
    \/ semanticChunkSentence
    \/ semanticChunkLast

SpecChunk == InitChunk /\ [][NextChunk]_vars

(***************************************************************************)
(* Properties of semanticChunk.                                            *)
(***************************************************************************)
\* the sentences of an emitted chunk that were not carried over from the
\* chunk before it
FreshSentences(e) == SubSeq(e.sentences, e.carried + 1, Len(e.sentences))

\* the fresh sentences of the emitted chunks, in order
RECURSIVE AllFreshSentences(_)
AllFreshSentences(es) ==
    IF es = <<>> THEN <<>>
    ELSE FreshSentences(Head(es)) \o AllFreshSentences(Tail(es))

\* the last n elements of q
Suffix(q, n) == SubSeq(q, Len(q) - n + 1, Len(q))

(***************************************************************************)
(* C22: semanticChunk loses no content, for every text, maxChunkSize and   *)
(* overlapSize, repeated sentences included: the chunks of a text that     *)
(* was split, each without the leading sentences it repeats from the       *)
(* chunk before it, give back the sentences of the trimmed text, every     *)
(* occurrence, in order.                                                   *)
(***************************************************************************)
C22_NoContentLoss ==
    (chunker.pc = "done" /\ chunker.exit = "chunked")
        => AllFreshSentences(chunker.emitted) = chunker.sentences

(***************************************************************************)
(* C23: every returned chunk is at most maxChunkSize long, except a chunk  *)
(* that contains a sentence which alone is longer than maxChunkSize; for   *)
(* every overlapSize, chunks that start with carried sentences included.   *)
(***************************************************************************)
C23_ChunkSizeBound ==
    chunker.pc = "done"
        => \A k \in DOMAIN chunker.chunks :
              \/ Len(chunker.chunks[k]) <= chunker.maxChunkSize
              \/ /\ chunker.exit = "chunked"
                 /\ \E n \in DOMAIN chunker.emitted[k].sentences :
                       Len(chunker.emitted[k].sentences[n]) > chunker.maxChunkSize

(***************************************************************************)
(* C24: when the loop emits a chunk, the sentences carried into the next   *)
(* chunk are whole sentences forming a suffix of the emitted chunk, their  *)
(* text is at most overlapSize long, no longer suffix fits either, and     *)
(* overlapSize 0 carries nothing.                                          *)
(***************************************************************************)
C24_OverlapWithinSize ==
    [][(chunker.pc = "loop" /\ Len(chunker'.chunks) = Len(chunker.chunks) + 1)
          => LET emittedChunk == chunker.currentChunk
                 carriedOver == chunker'.lastOverlapSentences
             IN  /\ Len(carriedOver) <= Len(emittedChunk)
                 /\ carriedOver = Suffix(emittedChunk, Len(carriedOver))
                 /\ Len(Join(carriedOver)) <= chunker.overlapSize
                 /\ \A n \in (Len(carriedOver) + 1)..Len(emittedChunk) :
                       Len(Join(Suffix(emittedChunk, n))) > chunker.overlapSize
                 /\ chunker.overlapSize = 0 => carriedOver = <<>>]_vars

(***************************************************************************)
(* C25: a sentence longer than maxChunkSize is neither split nor dropped:  *)
(* it is returned whole as a chunk made of that sentence alone, not merged *)
(* with carried or neighbouring sentences.                                 *)
(***************************************************************************)
C25_LongSentenceAlone ==
    (chunker.pc = "done" /\ chunker.exit = "chunked")
        => \A n \in DOMAIN chunker.sentences :
              Len(chunker.sentences[n]) > chunker.maxChunkSize
                  => \E k \in DOMAIN chunker.chunks :
                        /\ chunker.chunks[k] = chunker.sentences[n]
                        /\ chunker.emitted[k].sentences = <<chunker.sentences[n]>>

(***************************************************************************)
(* C26: a text whose trimmed length is at most maxChunkSize gives no       *)
(* chunk when it is empty or whitespace only and otherwise exactly one     *)
(* chunk, the trimmed text, whatever overlapSize and preserveHeaders are.  *)
(***************************************************************************)
C26_ShortTextOneChunk ==
    (chunker.pc = "done" /\ Len(StringTrim(chunker.text)) <= chunker.maxChunkSize)
        => chunker.chunks = IF StringTrim(chunker.text) = <<>>
                            THEN <<>>
                            ELSE <<StringTrim(chunker.text)>>

\* a text of exactly maxChunkSize characters once trimmed, two sentences two
\* spaces apart, chunked with an overlap and without header preservation
C26_Witness ==
    /\ chunker.pc = "done"
    /\ StringTrim(chunker.text) # chunker.text
    /\ Len(StringTrim(chunker.text)) = chunker.maxChunkSize
    /\ Len(splitIntoSentences(StringTrim(chunker.text))) = 2
    /\ Join(splitIntoSentences(StringTrim(chunker.text))) # StringTrim(chunker.text)
    /\ chunker.overlapSize > 0
    /\ ~chunker.preserveHeaders
    /\ chunker.chunks = <<StringTrim(chunker.text)>>

(***************************************************************************)
(* Conversation (Conversation.ts, lines 159-195).  this.messages holds     *)
(* message objects; a message made by addMessageWithToolCalls refers to    *)
(* the ToolCall[] array its caller passed, kept here as arrays[ref]; a     *)
(* message made by addMessage has no toolCalls property (ref 0).           *)
(***************************************************************************)
MaxMessages == 2

MaxHistories == 2

ConversationIds == {"uuid-1", "uuid-2"}

\* MessageRole
Roles == {"user", "model", "tool"}

\* the content arguments: '', ' ', 'hi', ' hi '
ContentArguments == {<<>>, <<" ">>, <<"h", "i">>, <<" ", "h", "i", " ">>}

ToolCall(id) == [id |-> id, name |-> "search", args |-> "weather today"]

\* the toolCalls arguments
ToolCallLists == {<<>>, <<ToolCall("call_1")>>}

\* Array.prototype.unshift in the place of push
unshift(array, item) == <<item>> \o array

\* Array.prototype.push
push(array, item) == Append(array, item)

\* line 169, never true
ContentIsEmptyNever(trimmedContent) == FALSE

\* line 169: trimmedContent.length === 0
ContentIsEmpty(trimmedContent) == Len(trimmedContent) = 0

\* line 185, with || in the place of &&
NothingToStoreEither(trimmedContent, toolCalls) ==
    Len(trimmedContent) = 0 \/ Len(toolCalls) = 0

\* line 185: trimmedContent.length === 0 && toolCalls.length === 0
NothingToStore(trimmedContent, toolCalls) ==
    Len(trimmedContent) = 0 /\ Len(toolCalls) = 0

\* what a reader of message m sees: its role, its content and, when it has
\* them, the tool calls of the array it refers to, as that array is in heap
Deref(m, heap) ==
    IF m.toolCalls = 0
    THEN [role |-> m.role, content |-> m.content]
    ELSE [role |-> m.role, content |-> m.content, toolCalls |-> heap[m.toolCalls]]

\* the messages of an array of message objects, as a reader sees them
View(ms, heap) == [k \in DOMAIN ms |-> Deref(ms[k], heap)]

\* what getHistory would show now
History == View(conv.messages, arrays)

\* new Conversation(), lines 163-165
InitConv ==
    /\ Constructed([webSearch |-> FALSE, knowledgeBase |-> FALSE])
    /\ KnowledgeBaseUnbuilt
    /\ chunker = NoChunking
    /\ \E id \in ConversationIds : conv = [id |-> id, messages |-> <<>>]
    /\ arrays = <<>>
    /\ snapshots = <<>>
    /\ lastCall = NoCall
    /\ AppUnbuilt

\* addMessage(role, content), lines 167-175
addMessage ==
    /\ conv.id # "none"
    /\ Len(conv.messages) < MaxMessages
    /\ \E role \in Roles, content \in ContentArguments :
         LET trimmedContent == StringTrim(content)
             raises == ContentIsEmpty(trimmedContent)
         IN  /\ lastCall' = [op |-> "addMessage", raised |-> raises,
                             role |-> role, content |-> content]
             /\ conv' = IF raises THEN conv
                        ELSE [conv EXCEPT !.messages =
                                 push(@, [role |-> role, content |-> trimmedContent,
                                          toolCalls |-> 0])]
    /\ UNCHANGED <<arrays, snapshots>>
    /\ UNCHANGED <<agentVars, kbVars, chunkVars, appVars>>

\* addMessageWithToolCalls(role, content, toolCalls), lines 177-190: the
\* message keeps the array it was given
addMessageWithToolCalls ==
    /\ conv.id # "none"
    /\ Len(conv.messages) < MaxMessages
    /\ \E role \in Roles, content \in ContentArguments, toolCalls \in ToolCallLists :
         LET trimmedContent == StringTrim(content)
             raises == NothingToStore(trimmedContent, toolCalls)
             ref == Len(arrays) + 1
         IN  /\ lastCall' = [op |-> "addMessageWithToolCalls", raised |-> raises,
                             role |-> role, content |-> content,
                             toolCalls |-> toolCalls]
             /\ arrays' = IF raises THEN arrays ELSE Append(arrays, toolCalls)
             /\ conv' = IF raises THEN conv
                        ELSE [conv EXCEPT !.messages =
                                 push(@, [role |-> role, content |-> trimmedContent,
                                          toolCalls |-> ref])]
    /\ UNCHANGED snapshots
    /\ UNCHANGED <<agentVars, kbVars, chunkVars, appVars>>

\* getHistory(), lines 192-194: a new array holding the same message objects
getHistory ==
    /\ conv.id # "none"
    /\ Len(snapshots) < MaxHistories
    /\ snapshots' = Append(snapshots, conv.messages)
    /\ lastCall' = [op |-> "getHistory", raised |-> FALSE]
    /\ UNCHANGED <<conv, arrays>>
    /\ UNCHANGED <<agentVars, kbVars, chunkVars, appVars>>

NextConv ==
    \/ addMessage
    \/ addMessageWithToolCalls
    \/ getHistory

SpecConv == InitConv /\ [][NextConv]_vars

(***************************************************************************)
(* What a caller can do with a value getHistory returned: snapshots[s] is  *)
(* the caller's own array, its entries are the message objects of the      *)
(* Conversation, and a message's toolCalls is the array the Conversation   *)
(* refers to (Message.ts, lines 10-16: readonly properties, a plain        *)
(* ToolCall[]).                                                            *)
(***************************************************************************)
\* a message object the caller made
ForeignMessage == [role |-> "user", content |-> <<"x">>, toolCalls |-> 0]

\* history.push(message)
callerAddsEntry ==
    /\ \E s \in DOMAIN snapshots :
         /\ ForeignMessage \notin Range(snapshots[s])
         /\ snapshots' = [snapshots EXCEPT ![s] = push(@, ForeignMessage)]
    /\ lastCall' = [op |-> "callerAddsEntry", raised |-> FALSE]
    /\ UNCHANGED <<conv, arrays>>
    /\ UNCHANGED <<agentVars, kbVars, chunkVars, appVars>>

\* history.pop()
callerRemovesEntry ==
    /\ \E s \in DOMAIN snapshots :
         /\ Len(snapshots[s]) > 0
         /\ snapshots' = [snapshots EXCEPT ![s] = SubSeq(@, 1, Len(@) - 1)]
    /\ lastCall' = [op |-> "callerRemovesEntry", raised |-> FALSE]
    /\ UNCHANGED <<conv, arrays>>
    /\ UNCHANGED <<agentVars, kbVars, chunkVars, appVars>>

\* history[k] = message
callerReplacesEntry ==
    /\ \E s \in DOMAIN snapshots :
         \E k \in DOMAIN snapshots[s] :
            /\ ForeignMessage \notin Range(snapshots[s])
            /\ snapshots' = [snapshots EXCEPT ![s][k] = ForeignMessage]
    /\ lastCall' = [op |-> "callerReplacesEntry", raised |-> FALSE]
    /\ UNCHANGED <<conv, arrays>>
    /\ UNCHANGED <<agentVars, kbVars, chunkVars, appVars>>

\* history[k].toolCalls.push(call) or history[k].toolCalls.length = 0
callerAltersToolCalls ==
    /\ \E s \in DOMAIN snapshots :
         \E k \in DOMAIN snapshots[s] :
            LET ref == snapshots[s][k].toolCalls
            IN  /\ ref # 0
                /\ \/ /\ ToolCall("call_x") \notin Range(arrays[ref])
                      /\ arrays' = [arrays EXCEPT ![ref] = push(@, ToolCall("call_x"))]
                   \/ /\ Len(arrays[ref]) > 0
                      /\ arrays' = [arrays EXCEPT ![ref] = <<>>]
    /\ lastCall' = [op |-> "callerAltersToolCalls", raised |-> FALSE]
    /\ UNCHANGED <<conv, snapshots>>
    /\ UNCHANGED <<agentVars, kbVars, chunkVars, appVars>>

NextConvCaller ==
    \/ NextConv
    \/ callerAddsEntry
    \/ callerRemovesEntry
    \/ callerReplacesEntry
    \/ callerAltersToolCalls

SpecConvCaller == InitConv /\ [][NextConvCaller]_vars

(***************************************************************************)
(* Properties of Conversation.                                             *)
(***************************************************************************)
\* content is empty or whitespace only
Blank(content) == \A k \in DOMAIN content : IsSpace(content[k])

(***************************************************************************)
(* C27: under addMessage, addMessageWithToolCalls and getHistory calls     *)
(* the history is the successfully added messages in call order: a call    *)
(* leaves the history as it was or, when it is an add that did not raise,  *)
(* puts one message after it; every history returned so far is a prefix    *)
(* of the present one, the later returned extending the earlier; and the   *)
(* id of the conversation never changes.                                   *)
(***************************************************************************)
C27_AppendOnlyHistory ==
    [][/\ conv'.id = conv.id
       /\ Extends(History, History')
       /\ Len(History') <= Len(History) + 1
       /\ Len(History') = Len(History) + 1
             <=> /\ lastCall'.op \in {"addMessage", "addMessageWithToolCalls"}
                 /\ ~lastCall'.raised
       /\ \A s \in DOMAIN snapshots' :
             /\ Extends(View(snapshots'[s], arrays'), History')
             /\ \A t \in DOMAIN snapshots' :
                   s < t => Extends(View(snapshots'[s], arrays'),
                                    View(snapshots'[t], arrays'))]_vars

\* two messages were added, one of them with tool calls, an add raised in
\* between or after, and a history returned earlier holds only the first
C27_Witness ==
    /\ Len(conv.messages) = 2
    /\ \E k \in DOMAIN conv.messages : conv.messages[k].toolCalls # 0
    /\ conv.messages[1] # conv.messages[2]
    /\ \E s \in DOMAIN snapshots : Len(snapshots[s]) = 1
    /\ \E s \in DOMAIN snapshots : Len(snapshots[s]) = 2

(***************************************************************************)
(* C29: addMessage(role, content) raises when content is empty or          *)
(* whitespace only and then leaves the history unchanged; otherwise it     *)
(* appends exactly one message, with the given role and the trimmed        *)
(* content.                                                                *)
(***************************************************************************)
C29_AddMessage ==
    [][lastCall'.op = "addMessage"
          => IF Blank(lastCall'.content)
             THEN lastCall'.raised /\ History' = History
             ELSE /\ ~lastCall'.raised
                  /\ History' = Append(History,
                                       [role |-> lastCall'.role,
                                        content |-> StringTrim(lastCall'.content)])]_vars

\* a message whose content had spaces around it follows a stored message,
\* stored without them
C29_Witness ==
    /\ lastCall.op = "addMessage"
    /\ ~lastCall.raised
    /\ lastCall.content # StringTrim(lastCall.content)
    /\ Len(conv.messages) = 2
    /\ conv.messages[2].content = StringTrim(lastCall.content)
    /\ conv.messages[2].role = lastCall.role

(***************************************************************************)
(* C30: addMessageWithToolCalls(role, content, toolCalls) raises and       *)
(* leaves the history unchanged exactly when the trimmed content is empty  *)
(* and toolCalls is empty; otherwise it appends one message carrying the   *)
(* trimmed content, which may be empty, and the tool calls.                *)
(***************************************************************************)
C30_AddMessageWithToolCalls ==
    [][lastCall'.op = "addMessageWithToolCalls"
          => IF Blank(lastCall'.content) /\ lastCall'.toolCalls = <<>>
             THEN lastCall'.raised /\ History' = History
             ELSE /\ ~lastCall'.raised
                  /\ History' = Append(History,
                                       [role |-> lastCall'.role,
                                        content |-> StringTrim(lastCall'.content),
                                        toolCalls |-> lastCall'.toolCalls])]_vars

\* a message with tool calls and whitespace-only content was stored with
\* empty content
C30_Witness ==
    /\ lastCall.op = "addMessageWithToolCalls"
    /\ ~lastCall.raised
    /\ lastCall.content = <<" ">>
    /\ Len(lastCall.toolCalls) = 1
    /\ Last(conv.messages).content = <<>>
    /\ arrays[Last(conv.messages).toolCalls] = lastCall.toolCalls

(***************************************************************************)
(* C28: getHistory returns a copy: the array returned equals the history   *)
(* and is an array of the caller's own, and nothing a caller does through  *)
(* a returned value (adding, removing or replacing entries, altering the   *)
(* tool-call list of a returned message) changes what getHistory returns   *)
(* later.                                                                  *)
(***************************************************************************)
C28_HistoryIsACopy ==
    [][/\ lastCall'.op = "getHistory"
             => /\ Len(snapshots') = Len(snapshots) + 1
                /\ View(Last(snapshots'), arrays') = History'
                /\ History' = History
       /\ lastCall'.op \in {"callerAddsEntry", "callerRemovesEntry",
                            "callerReplacesEntry", "callerAltersToolCalls"}
             => History' = History]_vars

(***************************************************************************)
(* Message (Message.ts, lines 48-124) and the Conversation that stores    *)
(* Message objects (Conversation.ts, lines 48-148).                        *)
(***************************************************************************)
\* an absent optional property, or a null content
Absent == [present |-> FALSE]

Present(value) == [present |-> TRUE, value |-> value]

\* MessageContent.create(value), MessageContent.ts lines 15-23: the trimmed
\* value; the caller tests ContentRaises first
MessageContentCreate(value) == Present(StringTrim(value))

ContentRaises(value) == Len(StringTrim(value)) = 0

\* new Message(props), lines 56-63
NewMessage(role, content, toolCalls, toolResult) ==
    [kind |-> "message", role |-> role, content |-> content,
     toolCalls |-> toolCalls, toolResult |-> toolResult]

\* the factory call raised
Raised == [kind |-> "raised"]

\* the content, toolCalls and toolResult values a caller can put in
\* MessageProps: a MessageContent is never empty
PropsContents == {Absent, Present(<<"h", "i">>)}

PropsToolCalls == {Absent} \cup {Present(list) : list \in ToolCallLists}

PropsToolResults == {Absent, Present([toolCallId |-> "call_1", result |-> "sunny"])}

\* the string | null content arguments of createModelMessage
NullableContents == {Absent} \cup {Present(content) : content \in ContentArguments}

\* Message.create(props), lines 65-67
create ==
    /\ entity.made.kind # "none"
    /\ \E role \in Roles, content \in PropsContents,
          toolCalls \in PropsToolCalls, toolResult \in PropsToolResults :
         entity' = [entity EXCEPT
                      !.made = NewMessage(role, content, toolCalls, toolResult)]
    /\ UNCHANGED <<store, held, uc, posts, converter>>
    /\ UNCHANGED <<agentVars, kbVars, chunkVars, convVars>>

\* Message.createUserMessage(id, content), lines 69-76
createUserMessage ==
    /\ entity.made.kind # "none"
    /\ \E content \in ContentArguments :
         entity' = [entity EXCEPT
                      !.made = IF ContentRaises(content) THEN Raised
                               ELSE NewMessage("user", MessageContentCreate(content),
                                               Absent, Absent)]
    /\ UNCHANGED <<store, held, uc, posts, converter>>
    /\ UNCHANGED <<agentVars, kbVars, chunkVars, convVars>>

\* Message.createModelMessage(id, content, toolCalls), lines 78-90:
\* content ? MessageContent.create(content) : null
createModelMessage ==
    /\ entity.made.kind # "none"
    /\ \E content \in NullableContents, toolCalls \in PropsToolCalls :
         LET truthy == content.present /\ Len(content.value) > 0
         IN  entity' = [entity EXCEPT
                          !.made = IF truthy /\ ContentRaises(content.value)
                                   THEN Raised
                                   ELSE NewMessage("model",
                                            IF truthy
                                            THEN MessageContentCreate(content.value)
                                            ELSE Absent,
                                            toolCalls, Absent)]
    /\ UNCHANGED <<store, held, uc, posts, converter>>
    /\ UNCHANGED <<agentVars, kbVars, chunkVars, convVars>>

\* Message.createToolMessage(id, toolResult), lines 92-100
createToolMessage ==
    /\ entity.made.kind # "none"
    /\ \E toolResult \in PropsToolResults \ {Absent} :
         entity' = [entity EXCEPT
                      !.made = NewMessage("tool", Absent, Absent, toolResult)]
    /\ UNCHANGED <<store, held, uc, posts, converter>>
    /\ UNCHANGED <<agentVars, kbVars, chunkVars, convVars>>

\* Conversation.addMessage(message), Conversation.ts lines 101-104, with
\* the Message made last; one call is followed
entityAddMessage ==
    /\ entity.made.kind = "message"
    /\ entity.messages = <<>>
    /\ entity' = [entity EXCEPT !.messages = push(@, entity.made)]
    /\ UNCHANGED <<store, held, uc, posts, converter>>
    /\ UNCHANGED <<agentVars, kbVars, chunkVars, convVars>>

\* Conversation.create(id), Conversation.ts lines 61-69; no Message made yet
InitMessage ==
    /\ Constructed([webSearch |-> FALSE, knowledgeBase |-> FALSE])
    /\ KnowledgeBaseUnbuilt
    /\ chunker = NoChunking
    /\ ConversationUnbuilt
    /\ entity = [made |-> [kind |-> "nothing"], messages |-> <<>>]
    /\ store = <<>>
    /\ held = <<>>
    /\ uc = [pc |-> "idle"]
    /\ posts = <<>>
    /\ converter = NoConversion

NextMessage ==
    \/ create
    \/ createUserMessage
    \/ createModelMessage
    \/ createToolMessage
    \/ entityAddMessage

SpecMessage == InitMessage /\ [][NextMessage]_vars

\* the message has no content, no tool call and no tool result
AllEmpty(m) ==
    /\ ~m.content.present
    /\ ~m.toolCalls.present \/ m.toolCalls.value = <<>>
    /\ ~m.toolResult.present

(***************************************************************************)
(* C31: every Message the factories create, createUserMessage,             *)
(* createModelMessage and createToolMessage return, and every message a    *)
(* Conversation stores, has non-empty content or at least one tool call    *)
(* or a tool result.                                                       *)
(***************************************************************************)
C31_NoEmptyMessage ==
    /\ entity.made.kind = "message" => ~AllEmpty(entity.made)
    /\ \A k \in DOMAIN entity.messages : ~AllEmpty(entity.messages[k])

(***************************************************************************)
(* InMemoryConversationRepository (PromptLoader.ts, lines 46-70).  A       *)
(* Conversation object is [id, messages]; held.objects are the objects     *)
(* the callers of the repository hold, each entry an object of its own;    *)
(* held.found is what the last findById call returned and held.saved[id]   *)
(* the history of the conversation last passed to save under that id.      *)
(* Conversation.toSnapshot and Conversation.fromSnapshot are not in the    *)
(* sources at hand: they are taken as the deep copies that the             *)
(* repository's header comment and the specification describe.             *)
(***************************************************************************)
MaxObjects == 3

\* Conversation.toSnapshot(): the id and a copy of the messages
toSnapshot(conversation) ==
    [id |-> conversation.id, messages |-> conversation.messages]

\* Conversation.fromSnapshot(snapshot): a new Conversation with the
\* snapshot's id and a copy of its messages
fromSnapshot(snapshot) == [id |-> snapshot.id, messages |-> snapshot.messages]

\* findById(id), lines 49-58: null, or an entity rebuilt from the snapshot
findByIdResult(st, id) ==
    IF id \notin DOMAIN st THEN Absent ELSE Present(fromSnapshot(st[id]))

\* save that keeps the snapshot stored first
saveResultKeepsFirst(st, conversation) ==
    IF conversation.id \in DOMAIN st THEN st
    ELSE (conversation.id :> toSnapshot(conversation)) @@ st

\* save(conversation), lines 60-63: this.store.set(id, snapshot)
saveResult(st, conversation) ==
    (conversation.id :> toSnapshot(conversation)) @@ st

\* no findById call yet
NotAsked == [kind |-> "none", id |-> "", ref |-> 0]

\* new InMemoryConversationRepository(), line 47
InitRepo ==
    /\ Constructed([webSearch |-> FALSE, knowledgeBase |-> FALSE])
    /\ KnowledgeBaseUnbuilt
    /\ chunker = NoChunking
    /\ ConversationUnbuilt
    /\ entity = [made |-> [kind |-> "none"], messages |-> <<>>]
    /\ store = <<>>
    /\ held = [objects |-> <<>>, found |-> NotAsked, saved |-> <<>>]
    /\ uc = [pc |-> "idle"]
    /\ posts = <<>>
    /\ converter = NoConversion

\* new Conversation(), Conversation.ts lines 163-165: an id no other
\* conversation has
newConversation ==
    /\ Len(held.objects) < MaxObjects
    /\ \E id \in ConversationIds :
         /\ \A k \in DOMAIN held.objects : held.objects[k].id # id
         /\ held' = [held EXCEPT
                       !.objects = Append(@, [id |-> id, messages |-> <<>>])]
    /\ UNCHANGED <<entity, store, uc, posts, converter>>
    /\ UNCHANGED <<agentVars, kbVars, chunkVars, convVars>>

\* conversation.addMessage('user', 'hi') on an object some caller holds
heldAddMessage ==
    /\ \E k \in DOMAIN held.objects :
         /\ Len(held.objects[k].messages) < MaxMessages
         /\ held' = [held EXCEPT
                       !.objects[k].messages =
                           push(@, [role |-> "user", content |-> <<"h", "i">>])]
    /\ UNCHANGED <<entity, store, uc, posts, converter>>
    /\ UNCHANGED <<agentVars, kbVars, chunkVars, convVars>>

\* repository.save(conversation) with an object some caller holds
save ==
    /\ \E k \in DOMAIN held.objects :
         /\ store' = saveResult(store, held.objects[k])
         /\ held' = [held EXCEPT
                       !.saved = (held.objects[k].id :> held.objects[k].messages) @@ @]
    /\ UNCHANGED <<entity, uc, posts, converter>>
    /\ UNCHANGED <<agentVars, kbVars, chunkVars, convVars>>

\* repository.findById(id): the caller holds what it returned
findById ==
    /\ Len(held.objects) < MaxObjects
    /\ \E id \in ConversationIds :
         LET result == findByIdResult(store, id)
         IN  held' =
               IF result.present
               THEN [held EXCEPT
                       !.objects = Append(@, result.value),
                       !.found = [kind |-> "object", id |-> id,
                                  ref |-> Len(held.objects) + 1]]
               ELSE [held EXCEPT
                       !.found = [kind |-> "null", id |-> id, ref |-> 0]]
    /\ UNCHANGED <<entity, store, uc, posts, converter>>
    /\ UNCHANGED <<agentVars, kbVars, chunkVars, convVars>>

NextRepo ==
    \/ newConversation
    \/ heldAddMessage
    \/ save
    \/ findById

SpecRepo == InitRepo /\ [][NextRepo]_vars

(***************************************************************************)
(* C32: the repository stores snapshots.  A findById call for an id that   *)
(* was never saved returns null; for a saved id it returns an object of    *)
(* its own, none of those held before, with that id and the history the    *)
(* conversation had when it was last saved, whatever was done since to     *)
(* the saved object or to objects returned earlier; so two calls with no   *)
(* save in between return distinct objects with equal id and history.      *)
(***************************************************************************)
C32_RepositorySnapshots ==
    [][held'.found # held.found
          => LET id == held'.found.id
             IN  IF id \notin DOMAIN held.saved
                 THEN /\ held'.found.kind = "null"
                      /\ held'.objects = held.objects
                 ELSE /\ held'.found.kind = "object"
                      /\ held'.found.ref = Len(held.objects) + 1
                      /\ SubSeq(held'.objects, 1, Len(held.objects)) = held.objects
                      /\ held'.objects[held'.found.ref] =
                             [id |-> id, messages |-> held.saved[id]]]_vars

\* a conversation was saved and then changed, a first findById returned an
\* object that was changed too, and a second findById returned a third
\* object with the saved history
C32_Witness ==
    /\ held.found.kind = "object"
    /\ held.found.ref = Len(held.objects)
    /\ Len(held.objects) > 2
    /\ \A k \in DOMAIN held.objects : held.objects[k].id = held.found.id
    /\ Len(held.saved[held.found.id]) > 0
    /\ held.objects[1].messages # held.saved[held.found.id]
    /\ held.objects[2].messages # held.saved[held.found.id]
    /\ held.objects[held.found.ref].messages = held.saved[held.found.id]

(***************************************************************************)
(* SendMessageUseCase.execute (part_000, lines 18-46), run against the     *)
(* InMemoryConversationRepository and an agent given by what               *)
(* generateResponse does: resolve with a text or reject.  uc.trace lists   *)
(* the calls execute has made, uc.before is the store when it started.     *)
(***************************************************************************)
MaxExecutes == 2

\* conversation.addMessage(role, content), Conversation.ts lines 167-175,
\* on a Conversation object: Absent when it throws
addMessageResult(conversation, role, content) ==
    IF ContentIsEmpty(StringTrim(content)) THEN Absent
    ELSE Present([conversation EXCEPT
                    !.messages = push(@, [role |-> role,
                                          content |-> StringTrim(content)])])

\* what generateResponse resolves with
AgentTexts == {<<>>, <<"o", "k">>, <<" ", "o", "k">>}

AgentOutcomes ==
    {[kind |-> "text", text |-> t] : t \in AgentTexts} \cup {[kind |-> "rejects"]}

\* the histories of the conversation stored before the first execute
StoredHistories ==
    {<<>>,
     <<[role |-> "user", content |-> <<"h", "i">>],
       [role |-> "model", content |-> <<"o", "k">>]>>}

NotExecuting ==
    [pc |-> "idle", executes |-> 0, conversationId |-> "", content |-> <<>>,
     conversation |-> Absent, history |-> <<>>, agent |-> [kind |-> "none"],
     trace |-> <<>>, before |-> <<>>, error |-> "", result |-> Absent]

\* the repository holds the conversation uuid-1
InitUseCase ==
    /\ Constructed([webSearch |-> FALSE, knowledgeBase |-> FALSE])
    /\ KnowledgeBaseUnbuilt
    /\ chunker = NoChunking
    /\ ConversationUnbuilt
    /\ entity = [made |-> [kind |-> "none"], messages |-> <<>>]
    /\ \E h \in StoredHistories :
         store = saveResult(<<>>, [id |-> "uuid-1", messages |-> h])
    /\ held = <<>>
    /\ uc = NotExecuting
    /\ posts = <<>>
    /\ converter = NoConversion

\* execute(request), lines 18-22: up to the await of findById
execute ==
    /\ uc.pc \in {"idle", "returned", "failed"}
    /\ uc.executes < MaxExecutes
    /\ \E id \in ConversationIds, content \in ContentArguments :
         uc' = [NotExecuting EXCEPT
                  !.pc = "finding", !.executes = uc.executes + 1,
                  !.conversationId = id, !.content = content,
                  !.trace = <<"findById">>, !.before = store]
    /\ UNCHANGED <<entity, store, held, posts, converter>>
    /\ UNCHANGED <<agentVars, kbVars, chunkVars, convVars>>

\* lines 24-33 with a conversation made when none is found
executeFoundOrNew ==
    /\ uc.pc = "finding"
    /\ LET found == findByIdResult(store, uc.conversationId)
           conversation == IF found.present THEN found.value
                           ELSE [id |-> uc.conversationId, messages |-> <<>>]
           added == addMessageResult(conversation, "user", uc.content)
       IN  uc' = IF ~added.present
                 THEN [uc EXCEPT !.pc = "failed",
                                 !.conversation = Present(conversation),
                                 !.trace = Append(@, "addMessage user"),
                                 !.error = "Message content cannot be empty"]
                 ELSE [uc EXCEPT !.pc = "generating",
                                 !.conversation = added,
                                 !.history = added.value.messages,
                                 !.trace = @ \o <<"addMessage user", "generateResponse">>]
    /\ UNCHANGED <<entity, store, held, posts, converter>>
    /\ UNCHANGED <<agentVars, kbVars, chunkVars, convVars>>

\* lines 20-33: findById has resolved; not found, or the user message is
\* added and generateResponse is called with getHistory()
executeFound ==
    /\ uc.pc = "finding"
    /\ LET found == findByIdResult(store, uc.conversationId)
           added == addMessageResult(found.value, "user", uc.content)
       IN  uc' = IF ~found.present
                 THEN [uc EXCEPT !.pc = "failed",
                                 !.error = "Conversation not found"]
                 ELSE IF ~added.present
                 THEN [uc EXCEPT !.pc = "failed",
                                 !.conversation = found,
                                 !.trace = Append(@, "addMessage user"),
                                 !.error = "Message content cannot be empty"]
                 ELSE [uc EXCEPT !.pc = "generating",
                                 !.conversation = added,
                                 !.history = added.value.messages,
                                 !.trace = @ \o <<"addMessage user", "generateResponse">>]
    /\ UNCHANGED <<entity, store, held, posts, converter>>
    /\ UNCHANGED <<agentVars, kbVars, chunkVars, convVars>>

\* lines 33-39 without the model message: the conversation is saved as it
\* was when the agent was called
executeAnsweredSavesAsIs ==
    /\ uc.pc = "generating"
    /\ \E outcome \in AgentOutcomes :
         /\ uc' = IF outcome.kind = "rejects"
                  THEN [uc EXCEPT !.pc = "failed", !.agent = outcome,
                                  !.error = "agent failed"]
                  ELSE [uc EXCEPT !.pc = "saving", !.agent = outcome,
                                  !.trace = @ \o <<"addMessage model", "save">>]
         /\ store' = IF outcome.kind = "rejects" THEN store
                     ELSE saveResult(store, uc.conversation.value)
    /\ UNCHANGED <<entity, held, posts, converter>>
    /\ UNCHANGED <<agentVars, kbVars, chunkVars, convVars>>

\* lines 33-39: generateResponse has settled; the model message is added
\* and save is called
executeAnswered ==
    /\ uc.pc = "generating"
    /\ \E outcome \in AgentOutcomes :
         LET added == IF outcome.kind = "rejects" THEN Absent
                      ELSE addMessageResult(uc.conversation.value, "model",
                                            outcome.text)
         IN  /\ uc' = IF outcome.kind = "rejects"
                      THEN [uc EXCEPT !.pc = "failed", !.agent = outcome,
                                      !.error = "agent failed"]
                      ELSE IF ~added.present
                      THEN [uc EXCEPT !.pc = "failed", !.agent = outcome,
                                      !.trace = Append(@, "addMessage model"),
                                      !.error = "Message content cannot be empty"]
                      ELSE [uc EXCEPT !.pc = "saving", !.agent = outcome,
                                      !.conversation = added,
                                      !.trace = @ \o <<"addMessage model", "save">>]
             /\ store' = IF added.present
                         THEN saveResult(store, added.value)
                         ELSE store
    /\ UNCHANGED <<entity, held, posts, converter>>
    /\ UNCHANGED <<agentVars, kbVars, chunkVars, convVars>>

\* lines 39-45: save has resolved; execute resolves with the response
executeReturns ==
    /\ uc.pc = "saving"
    /\ uc' = [uc EXCEPT !.pc = "returned",
                        !.result = Present([modelResponse |-> uc.agent.text,
                                            conversationId |-> uc.conversation.value.id])]
    /\ UNCHANGED <<entity, store, held, posts, converter>>
    /\ UNCHANGED <<agentVars, kbVars, chunkVars, convVars>>

NextUseCase ==
    \/ execute
    \/ executeFound
    \/ executeAnswered
    \/ executeReturns

SpecUseCase == InitUseCase /\ [][NextUseCase]_vars

\* the calls of an execute that returns, in order
FullTrace ==
    <<"findById", "addMessage user", "generateResponse", "addMessage model", "save">>

\* the message addMessage stores for a role and a content
StoredMessage(role, content) == [role |-> role, content |-> StringTrim(content)]

(***************************************************************************)
(* C33: execute, for an existing conversation, calls in this order:        *)
(* findById, addMessage for the user message, the agent with a history     *)
(* whose last entry is that user message, addMessage for the agent's       *)
(* response as a model message, save; once it has returned, the saved      *)
(* history is the one found followed by the user message and the model     *)
(* response (contents as addMessage stores them, trimmed), and the         *)
(* modelResponse returned is the agent's text.                             *)
(***************************************************************************)
C33_ExecuteInOrder ==
    /\ Extends(uc.trace, FullTrace)
    /\ uc.pc \in {"generating", "saving", "returned"}
          => uc.history = Append(uc.before[uc.conversationId].messages,
                                 StoredMessage("user", uc.content))
    /\ uc.pc = "returned"
          => /\ uc.trace = FullTrace
             /\ store[uc.conversationId].messages =
                    uc.before[uc.conversationId].messages
                        \o <<StoredMessage("user", uc.content),
                             StoredMessage("model", uc.agent.text)>>
             /\ uc.result.value.modelResponse = uc.agent.text
             /\ uc.result.value.conversationId = uc.conversationId

\* a second execute on the conversation has returned, after an agent text
\* with a leading space
C33_Witness ==
    /\ uc.pc = "returned"
    /\ uc.executes = MaxExecutes
    /\ Len(uc.before[uc.conversationId].messages) > 1
    /\ uc.before # store
    /\ uc.agent.text = <<" ", "o", "k">>

(***************************************************************************)
(* C34: when findById returns null, execute fails with 'Conversation not   *)
(* found' and neither the agent nor save is called; when the message       *)
(* validation or the agent fails, save is not called, the store is as it   *)
(* was, the error is the one raised and no call was made twice.            *)
(***************************************************************************)
C34_FailuresSaveNothing ==
    /\ (uc.pc # "idle" /\ uc.conversationId \notin DOMAIN uc.before)
          => /\ uc.pc \in {"finding", "failed"}
             /\ uc.trace = <<"findById">>
             /\ uc.pc = "failed" => uc.error = "Conversation not found"
    /\ uc.pc = "failed"
          => /\ "save" \notin Range(uc.trace)
             /\ store = uc.before
             /\ Cardinality(Range(uc.trace)) = Len(uc.trace)
             /\ ~uc.result.present
             /\ uc.agent.kind = "rejects"
                   => uc.error = "agent failed" /\ Last(uc.trace) = "generateResponse"
             /\ (uc.conversationId \in DOMAIN uc.before /\ Blank(uc.content))
                   => /\ uc.error = "Message content cannot be empty"
                      /\ "generateResponse" \notin Range(uc.trace)

\* the agent rejected in a second execute, after a first that saved
C34_Witness ==
    /\ uc.pc = "failed"
    /\ uc.agent.kind = "rejects"
    /\ uc.executes = MaxExecutes
    /\ Len(store[uc.conversationId].messages) > 1
    /\ store = uc.before

(***************************************************************************)
(* MessageConverter.toGenkitMessages called on its own, for every history  *)
(* of a bounded length.                                                    *)
(***************************************************************************)
MaxHistoryLen == 2

DomainRoles == {"user", "model", "tool"}
DomainContents == {"hi", "yo"}

\* Message[]: the histories of at most MaxHistoryLen messages
HistoryArguments ==
    UNION {[1..n -> [role : DomainRoles, content : DomainContents]] : n \in 0..MaxHistoryLen}

InitConverter ==
    /\ Constructed([webSearch |-> FALSE, knowledgeBase |-> FALSE])
    /\ KnowledgeBaseUnbuilt
    /\ chunker = NoChunking
    /\ ConversationUnbuilt
    /\ entity = [made |-> [kind |-> "none"], messages |-> <<>>]
    /\ store = <<>>
    /\ held = <<>>
    /\ uc = [pc |-> "idle"]
    /\ posts = <<>>
    /\ \E history \in HistoryArguments, systemPrompt \in SystemPrompts :
         converter = [pc |-> "idle", history |-> history, given |-> history,
                      systemPrompt |-> systemPrompt, result |-> <<>>]

\* toGenkitMessages(history, systemPrompt): history.map builds a new array,
\* the prompt is put in front of a further new array
convert ==
    /\ converter.pc = "idle"
    /\ converter' = [converter EXCEPT
                       !.pc = "done",
                       !.result = toGenkitMessages(converter.history,
                                                   converter.systemPrompt)]
    /\ UNCHANGED <<entity, store, held, uc, posts>>
    /\ UNCHANGED <<agentVars, kbVars, chunkVars, convVars>>

NextConverter == convert

SpecConverter == InitConverter /\ [][NextConverter]_vars

(***************************************************************************)
(* C35: toGenkitMessages returns, for a non-empty system prompt, one       *)
(* system message holding the prompt followed by exactly one text message  *)
(* per history entry, in order, and no system message for the empty        *)
(* prompt; each converted entry keeps the content and has role 'model' if  *)
(* the entry's role is model and 'user' otherwise; the history passed is   *)
(* as it was.                                                              *)
(***************************************************************************)
C35_ToGenkitMessages ==
    converter.pc = "done"
       => LET given == converter.given
              result == converter.result
              lead == IF converter.systemPrompt # "" THEN 1 ELSE 0
          IN  /\ Len(result) = Len(given) + lead
              /\ lead = 1 => /\ result[1].role = "system"
                             /\ result[1].part = "text"
                             /\ result[1].text = converter.systemPrompt
              /\ \A i \in 1..Len(given) :
                    /\ result[i + lead].role =
                           (IF given[i].role = "model" THEN "model" ELSE "user")
                    /\ result[i + lead].part = "text"
                    /\ result[i + lead].text = given[i].content
              /\ converter.history = given

\* a history with a tool entry after a model entry, converted under a prompt
C35_Witness ==
    /\ converter.pc = "done"
    /\ converter.systemPrompt # ""
    /\ Len(converter.given) = 2
    /\ converter.given[1].role = "model"
    /\ converter.given[2].role = "tool"
    /\ converter.given[1].content # converter.given[2].content
    /\ Len(converter.result) = 3

\* the run is over: generateResponse resolved or rejected, the generator
\* returned or threw
Ended(p) == p \in {"done", "raised"}

(***************************************************************************)
(* C36: in both modes a run leaves the execution of a tool only towards a  *)
(* further Completion Port call, with the tool's result as the last        *)
(* message of the transcript that call will pass, so it never ends         *)
(* directly after executing a tool; and once a run has ended no            *)
(* Completion Port call and no adapter call is made.                       *)
(***************************************************************************)
C36_RunStateMachine ==
    [][ /\ (pc = "execute" /\ pc' # "execute")
           => /\ pc' = "generate"
              /\ Last(currentMessages').part = "toolResponse"
              /\ Last(currentMessages').ref = req.ref
        /\ (pc = "generate" /\ calls' # calls)
           => Last(calls').messages = currentMessages
        /\ Ended(pc) => UNCHANGED <<calls, adapterCalls>> ]_vars

\* the chunks of this.chunks that carry a vector
Vectorized(cs) == {i \in DOMAIN cs : cs[i].hasVector}

(***************************************************************************)
(* C37: under every interleaving of search calls with the background       *)
(* indexing, a search passes its readiness gate and computes scores only   *)
(* while isIndexed is set, and the list it then reads is the complete      *)
(* chunk list (one chunk per paragraph, every vectorized chunk scored);    *)
(* no step of a search changes this.chunks or this.isIndexed.              *)
(***************************************************************************)
C37_SearchReadsCompleteList ==
    [][ /\ (search'.pc = "embedding" /\ search.pc # "embedding") => isIndexed
        /\ (search.pc = "embedding" /\ search'.pc # "embedding")
              => /\ isIndexed
                 /\ indexPc = "done"
                 /\ Len(chunks) = Len(rawChunks)
                 /\ search'.exit = "scored"
                       => Len(search'.scored) = Cardinality(Vectorized(chunks))
        /\ search' # search => UNCHANGED <<chunks, isIndexed>> ]_vars

\* a search that started while the index was being built has passed the
\* gate after its pause and scored the chunks
C37_Witness ==
    /\ search.pc = "returned"
    /\ search.exit = "scored"
    /\ ~search.startedReady
    /\ search.waits = 1
    /\ Len(chunks) = 4
    /\ Len(search.scored) = 3

(***************************************************************************)
(* C40: indexing has the ai.embed calls of all chunks in flight together,  *)
(* and whatever the order in which they settle the store it builds is the  *)
(* same: chunk i has id i (counted from 0) and the trimmed text of the     *)
(* i-th raw chunk, in document order, and carries a vector exactly when    *)
(* its own ai.embed call produced an embedding.                            *)
(***************************************************************************)
C40_StoreIndependentOfOrder ==
    /\ indexPc = "embedding"
          => /\ DOMAIN embeds = DOMAIN rawChunks
             /\ Range(settled) = {i \in DOMAIN embeds : embeds[i] # InFlight}
             /\ chunks = <<>>
    /\ indexPc = "done"
          => /\ Len(settled) = Len(rawChunks)
             /\ Range(settled) = DOMAIN rawChunks
             /\ DOMAIN chunks = DOMAIN rawChunks
             /\ \A i \in DOMAIN rawChunks :
                   /\ chunks[i].id = i - 1
                   /\ chunks[i].text = Trim(rawChunks[i])
                   /\ chunks[i].hasVector <=> embeds[i].kind = "embedding"
                   /\ chunks[i].hasVector => chunks[i].vector = embeds[i].vector

\* the store is built after the third chunk's call settled first, with a
\* rejection, and the first chunk's call settled last
C40_Witness ==
    /\ indexPc = "done"
    /\ Len(chunks) = 4
    /\ settled[1] = 3
    /\ settled[4] = 1
    /\ embeds[3].kind = "throws"
    /\ embeds[1].kind = "embedding"
    /\ chunks[2].hasVector

\* the response being processed carries several tool requests, the first
\* of them for a registered tool
SeveralRequests ==
    /\ response.output.kind = "list"
    /\ Len(response.output.toolRequests) > 1
    /\ response.output.toolRequests[1].toolName \in Range(tools)

\* the messages of a transcript that refer to the request r
TraceOf(r, messages) ==
    {i \in DOMAIN messages :
        /\ messages[i].part \in {"toolRequest", "toolResponse"}
        /\ messages[i].ref = r.ref}

(***************************************************************************)
(* C38: when a Completion Port response carries several tool requests      *)
(* (the first for a registered tool), the turn invokes exactly one         *)
(* adapter, for the first request, and appends exactly one model           *)
(* tool-request message and one tool message, both for the first request;  *)
(* no message of the transcript refers to any of the other requests.       *)
(***************************************************************************)
C38_FirstRequestOnly ==
    [][ (pc = "execute" /\ pc' # "execute" /\ SeveralRequests)
           => LET requests == response.output.toolRequests
                  before == Last(calls).messages
              IN  /\ Len(adapterCalls') = Len(adapterCalls) + 1
                  /\ Last(adapterCalls').tool = requests[1].toolName
                  /\ Last(adapterCalls').query = requests[1].query
                  /\ Len(currentMessages') = Len(before) + 2
                  /\ Extends(before, currentMessages')
                  /\ currentMessages'[Len(before) + 1] = ToolRequestMessage(requests[1])
                  /\ currentMessages'[Len(before) + 2].part = "toolResponse"
                  /\ currentMessages'[Len(before) + 2].ref = requests[1].ref
                  /\ \A k \in 2..Len(requests) :
                        TraceOf(requests[k], currentMessages') = {} ]_vars

(***************************************************************************)
(* POST /api/chat: requests on one repository, each running up to its own  *)
(* awaits while the others proceed.                                        *)
(***************************************************************************)
MaxPosts == 2

Digits == <<"1", "2", "3">>

\* content of the last message of the r-th request's body, and the text
\* the agent streams for it
Question(r) == <<"q", Digits[r]>>
Answer(r) == <<"a", Digits[r]>>

\* crypto.randomUUID() of the Conversation the r-th request creates
RandomUUID(r) == <<"uuid-n1", "uuid-n2", "uuid-n3">>[r]

\* body.conversationId: a saved id, an id never saved, or none
BodyConversationIds == {"uuid-1", "uuid-2", ""}

\* the last message of body.messages
LastMessages(r) ==
    [role : {"user", "assistant"}, content : {Question(r), <<" ">>}]

\* what the for await over agent.generateStream ends with: the chunks
\* concatenated, or the generator throwing
StreamOutcomes(r) ==
    {[kind |-> "text", text |-> t] : t \in {<<>>, Answer(r)}} \cup {[kind |-> "throws"]}

InitPost ==
    /\ Constructed([webSearch |-> FALSE, knowledgeBase |-> FALSE])
    /\ KnowledgeBaseUnbuilt
    /\ chunker = NoChunking
    /\ ConversationUnbuilt
    /\ entity = [made |-> [kind |-> "none"], messages |-> <<>>]
    /\ \E h \in StoredHistories :
         store = saveResult(<<>>, [id |-> "uuid-1", messages |-> h])
    /\ held = <<>>
    /\ uc = [pc |-> "idle"]
    /\ posts = <<>>
    /\ converter = NoConversion

\* lines 72-83: a request arrives, await req.json() (a non-empty messages
\* array is taken: the 400 answer touches nothing)
POST ==
    /\ Len(posts) < MaxPosts
    /\ \E id \in BodyConversationIds, lastMessage \in LastMessages(Len(posts) + 1) :
         posts' = Append(posts, [pc |-> "parsed",
                                 conversationId |-> id,
                                 lastMessage |-> lastMessage,
                                 conversation |-> [id |-> "", messages |-> <<>>],
                                 fullResponse |-> <<>>])
    /\ UNCHANGED <<entity, store, held, uc, converter>>
    /\ UNCHANGED <<agentVars, kbVars, chunkVars, convVars>>

\* lines 85-116: findById or new Conversation(), addMessage for a last
\* message of role user, the stream's start up to the first chunk awaited;
\* a throw of addMessage is answered with status 500
postFindById ==
    /\ \E r \in DOMAIN posts :
        /\ posts[r].pc = "parsed"
        /\ LET p == posts[r]
               existing == IF p.conversationId # ""
                           THEN findByIdResult(store, p.conversationId)
                           ELSE Absent
               conversation == IF existing.present THEN existing.value
                               ELSE [id |-> RandomUUID(r), messages |-> <<>>]
               added == IF p.lastMessage.role = "user"
                        THEN addMessageResult(conversation, "user", p.lastMessage.content)
                        ELSE Present(conversation)
           IN  posts' = [posts EXCEPT ![r] =
                   IF added.present
                   THEN [p EXCEPT !.pc = "streaming", !.conversation = added.value]
                   ELSE [p EXCEPT !.pc = "failed", !.conversation = conversation]]
    /\ UNCHANGED <<entity, store, held, uc, converter>>
    /\ UNCHANGED <<agentVars, kbVars, chunkVars, convVars>>

\* lines 117-133: the for await is over; addMessage for a non-empty
\* fullResponse, repo.save(conversation), controller.close(); a throw of
\* the generator goes to controller.error
postStreamEnds ==
    /\ \E r \in DOMAIN posts :
        /\ posts[r].pc = "streaming"
        /\ \E outcome \in StreamOutcomes(r) :
            LET p == posts[r]
                added == IF outcome.kind = "text" /\ outcome.text # <<>>
                         THEN addMessageResult(p.conversation, "model", outcome.text)
                         ELSE Present(p.conversation)
            IN  IF outcome.kind = "throws" \/ ~added.present
                THEN /\ posts' = [posts EXCEPT ![r].pc = "errored"]
                     /\ UNCHANGED store
                ELSE /\ posts' = [posts EXCEPT ![r] =
                            [p EXCEPT !.pc = "saved", !.conversation = added.value,
                                      !.fullResponse = outcome.text]]
                     /\ store' = saveResult(store, added.value)
    /\ UNCHANGED <<entity, held, uc, converter>>
    /\ UNCHANGED <<agentVars, kbVars, chunkVars, convVars>>

NextPost == POST \/ postFindById \/ postStreamEnds

SpecPost == InitPost /\ [][NextPost]_vars

\* the request found its conversation in the repository
OnExisting(p) == p.conversationId = p.conversation.id

(***************************************************************************)
(* C39: when POST requests on the same existing conversation id            *)
(* interleave, the snapshot stored once they have saved holds the user     *)
(* message and the model message of each of them: no save discards what    *)
(* another request saved.                                                  *)
(***************************************************************************)
C39_BothRequestsKept ==
    \A r \in DOMAIN posts :
        (posts[r].pc = "saved" /\ OnExisting(posts[r]))
           => LET p == posts[r]
                  stored == Range(store[p.conversationId].messages)
              IN  /\ p.lastMessage.role = "user"
                        => StoredMessage("user", p.lastMessage.content) \in stored
                  /\ p.fullResponse # <<>>
                        => StoredMessage("model", p.fullResponse) \in stored

====
